---- MODULE Spec2Model ----
(***************************************************************************)
(* Model of the ring protocol scripts.                                     *)
(*                                                                         *)
(* Part 1: sleep.py, get_sleep_data and its notification handler: the      *)
(* bulk ("big data") transfer of the sleep log, its reassembly with the    *)
(* one-byte carry buffer, the short-packet completion heuristic and the    *)
(* construction of the SleepDay result.                                    *)
(*                                                                         *)
(* Conventions.  A Python bytes/bytearray value is a sequence of integers  *)
(* 0..255.  Python's None is the empty tuple and a non-None value x is the *)
(* one-element tuple <<x>>, so that "x is None" and truthiness of a        *)
(* bytearray stay distinguishable.  A datetime (UTC) is the number of      *)
(* seconds since 2000-01-01 00:00:00; a date is a number of days since     *)
(* 2000-01-01.                                                             *)
(***************************************************************************)
EXTENDS Integers, Sequences, FiniteSets, TLC

(***************************************************************************)
(* Bounds of the model.                                                    *)
(***************************************************************************)
\* number of notification frames delivered in one session
MaxFrames == 3

(***************************************************************************)
(* Program constants.                                                      *)
(***************************************************************************)
BIG_DATA_MAGIC == 188
SLEEP_DATA_ID == 39
\* the timestamp marker 0x57 searched in the first packet
TS_MARKER == 87
\* "Parse after first 8 bytes (assuming first 8 are header + length)"
HEADER_SKIP == 8
\* the short packet heuristic: a frame below this length ends the stream
SHORT_PACKET_LEN == 20
\* "total minutes from 23:27 to 7:55 = 8h 28m = 508 minutes"
EXPECTED_MINUTES == 508
\* SleepType.UNKNOWN
UNKNOWN == -1
\* the members of SleepType: NODATA, LIGHT, DEEP, REM, AWAKE, UNKNOWN
SleepTypeValues == {0, 2, 3, 4, 5, -1}

None == <<>>
Some(x) == <<x>>

(***************************************************************************)
(* Python sequence primitives.                                             *)
(***************************************************************************)
\* data[k:]
SliceFrom(data, k) == SubSeq(data, k + 1, Len(data))

\* data[:-1]
DropLast(data) == SubSeq(data, 1, Len(data) - 1)

\* data[-1:]
LastByte(data) == SubSeq(data, Len(data), Len(data))

\* data.startswith(prefix)
StartsWith(data, prefix) ==
    /\ Len(data) >= Len(prefix)
    /\ SubSeq(data, 1, Len(prefix)) = prefix

\* b in data
Contains(data, b) == \E i \in 1..Len(data) : data[i] = b

\* data.index(b), 0-based, for a byte that occurs in data
IndexOf(data, b) ==
    (CHOOSE i \in 1..Len(data) :
        /\ data[i] = b
        /\ \A j \in 1..(i - 1) : data[j] # b) - 1

\* truthiness of an optional bytearray: not None and not empty
Truthy(opt) == opt # None /\ Len(opt[1]) > 0

(***************************************************************************)
(* datetime arithmetic (proleptic Gregorian calendar, UTC).                *)
(***************************************************************************)
IsLeap(y) == (y % 4 = 0) /\ ((y % 100 # 0) \/ (y % 400 = 0))

DaysInMonth(y, m) ==
    IF m = 2 THEN (IF IsLeap(y) THEN 29 ELSE 28)
    ELSE IF m \in {4, 6, 9, 11} THEN 30
    ELSE 31

\* the datetime constructor raises ValueError outside these ranges
ValidDateTime(y, mo, d, h, mi, s) ==
    /\ y >= 1 /\ y <= 9999
    /\ mo >= 1 /\ mo <= 12
    /\ d >= 1 /\ d <= DaysInMonth(y, mo)
    /\ h >= 0 /\ h <= 23
    /\ mi >= 0 /\ mi <= 59
    /\ s >= 0 /\ s <= 59

\* leap years in 1..y
LeapsUpTo(y) == (y \div 4) - (y \div 100) + (y \div 400)

\* days from 2000-01-01 to y-01-01, y >= 2000
DaysBeforeYear(y) == 365 * (y - 2000) + (LeapsUpTo(y - 1) - LeapsUpTo(1999))

RECURSIVE DaysBeforeMonth(_, _)
DaysBeforeMonth(y, m) ==
    IF m <= 1 THEN 0
    ELSE DaysBeforeMonth(y, m - 1) + DaysInMonth(y, m - 1)

\* datetime(y, mo, d, h, mi, s, tzinfo=utc) as seconds since 2000-01-01
ToSeconds(y, mo, d, h, mi, s) ==
    (DaysBeforeYear(y) + DaysBeforeMonth(y, mo) + (d - 1)) * 86400
        + h * 3600 + mi * 60 + s

\* timedelta(minutes=m) added to a datetime
AddMinutes(t, m) == t + 60 * m

\* datetime.date()
DateOf(t) == t \div 86400

(***************************************************************************)
(* decode_timestamp_from_6_bytes: the six bytes are plain integers; an     *)
(* invalid date is replaced by the current clock.                          *)
(***************************************************************************)
decode_timestamp_from_6_bytes(data, now) ==
    LET year   == 2000 + data[1]
        month  == data[2]
        day    == data[3]
        hour   == data[4]
        minute == data[5]
        second == data[6]
    IN  IF ValidDateTime(year, month, day, hour, minute, second)
        THEN ToSeconds(year, month, day, hour, minute, second)
        ELSE now

(***************************************************************************)
(* parse_sleep_records: strict pairs (type, duration); a record is a       *)
(* triple <<sleep_type, duration, offset>>.                                *)
(***************************************************************************)
ToSleepType(raw_type) ==
    IF raw_type \in SleepTypeValues THEN raw_type ELSE UNKNOWN

\* every record appended, whatever its duration
KeepRecord_any(duration) == TRUE

\* "if duration > 0: records.append(...)"
KeepRecord(duration) == duration > 0

RECURSIVE ParseFrom(_, _, _)
ParseFrom(data, i, start_offset) ==
    IF ~(i < Len(data) - 1) THEN <<>>
    ELSE LET raw_type   == data[i + 1]
             duration   == data[i + 2]
             sleep_type == ToSleepType(raw_type)
             rec == IF KeepRecord(duration)
                    THEN << <<sleep_type, duration, start_offset + i>> >>
                    ELSE <<>>
         IN  rec \o ParseFrom(data, i + 2, start_offset)

parse_sleep_records(data, start_offset) == ParseFrom(data, 0, start_offset)

(***************************************************************************)
(* The carry buffer step shared by the three parsing branches of the       *)
(* handler: prepend a pending carry, and when the length is odd move the   *)
(* last byte into the carry.  Returns the new carry and the bytes to parse.*)
(***************************************************************************)
CarryJoin_dropsPending(incomplete_record, sleep_data) ==
    IF Len(sleep_data) % 2 # 0
    THEN [carry |-> Some(LastByte(sleep_data)), body |-> DropLast(sleep_data)]
    ELSE [carry |-> None, body |-> sleep_data]

CarryJoin(incomplete_record, sleep_data) ==
    LET pending == Truthy(incomplete_record)
        joined  == IF pending THEN incomplete_record[1] \o sleep_data
                   ELSE sleep_data
        cleared == IF pending THEN None ELSE incomplete_record
    IN  IF Len(joined) % 2 # 0
        THEN [carry |-> Some(LastByte(joined)), body |-> DropLast(joined)]
        ELSE [carry |-> cleared, body |-> joined]

\* "incomplete_record = data[start_idx+6:]" of a first packet whose
\* timestamp region is truncated
TruncatedCarry_keepsRegion(data, start_idx) == SliceFrom(data, start_idx)

TruncatedCarry(data, start_idx) == SliceFrom(data, start_idx + 6)

\* "Short packet heuristic"
IsShortPacket_inclusive(data) == Len(data) <= SHORT_PACKET_LEN

IsShortPacket(data) == Len(data) < SHORT_PACKET_LEN

\* the first branch of the handler is taken for this frame
IsHeaderFrame(first_packet, data) ==
    /\ first_packet = None
    /\ StartsWith(data, <<BIG_DATA_MAGIC, SLEEP_DATA_ID>>)

(***************************************************************************)
(* notification_handler.  hs is the closure state                          *)
(*   [all_records, first_packet, timestamp, incomplete_record, done_event] *)
(* and the result is the closure state after the call.                     *)
(***************************************************************************)
notification_handler(hs, data, now) ==
    IF IsHeaderFrame(hs.first_packet, data)
    THEN
        IF Contains(data, TS_MARKER)
        THEN
            LET start_idx == IndexOf(data, TS_MARKER) + 1
            IN  IF start_idx + 6 <= Len(data)
                THEN
                    LET ts_bytes   == SubSeq(data, start_idx + 1, start_idx + 6)
                        sleep_data == SliceFrom(data, start_idx + 6)
                        cj == CarryJoin(hs.incomplete_record, sleep_data)
                    IN  [hs EXCEPT
                            !.first_packet = Some(data),
                            !.timestamp =
                                Some(decode_timestamp_from_6_bytes(ts_bytes, now)),
                            !.incomplete_record = cj.carry,
                            !.all_records =
                                @ \o parse_sleep_records(cj.body, start_idx + 6)]
                ELSE
                    [hs EXCEPT
                        !.first_packet = Some(data),
                        !.incomplete_record =
                            Some(TruncatedCarry(data, start_idx))]
        ELSE
            IF Len(data) > HEADER_SKIP
            THEN
                LET sleep_data == SliceFrom(data, HEADER_SKIP)
                    cj == CarryJoin(hs.incomplete_record, sleep_data)
                IN  [hs EXCEPT
                        !.first_packet = Some(data),
                        !.incomplete_record = cj.carry,
                        !.all_records =
                            @ \o parse_sleep_records(cj.body, HEADER_SKIP)]
            ELSE
                [hs EXCEPT
                    !.first_packet = Some(data),
                    !.incomplete_record = Some(SliceFrom(data, HEADER_SKIP))]
    ELSE
        LET cj == CarryJoin(hs.incomplete_record, data)
        IN  [hs EXCEPT
                !.incomplete_record = cj.carry,
                !.all_records = @ \o parse_sleep_records(cj.body, 0),
                !.done_event = @ \/ IsShortPacket(data)]

\* the closure state at the start of get_sleep_data
InitialHandlerState ==
    [all_records       |-> <<>>,
     first_packet      |-> None,
     timestamp         |-> None,
     incomplete_record |-> None,
     done_event        |-> FALSE]

(***************************************************************************)
(* Construction of the result of get_sleep_data.                           *)
(***************************************************************************)
\* "timestamp = now.replace(hour=23, minute=27, second=0, microsecond=0);
\*  if timestamp > now: timestamp -= timedelta(days=1)"
FallbackStart(now) ==
    LET t == DateOf(now) * 86400 + 23 * 3600 + 27 * 60
    IN  IF t > now THEN t - 86400 ELSE t

\* the minutes added up by "current_time += timedelta(minutes=duration)"
RECURSIVE TotalDuration(_)
TotalDuration(records) ==
    IF records = <<>> THEN 0
    ELSE records[1][2] + TotalDuration(Tail(records))

\* "abs(actual_duration - 508) > 1"
NeedsRescale(actual_duration) ==
    LET diff == actual_duration - EXPECTED_MINUTES
    IN  (IF diff < 0 THEN -diff ELSE diff) > 1

\* round(): to the nearest integer, a tie to the even one
RoundHalfEven(num, den) ==
    LET q == num \div den
        r == num % den
    IN  IF 2 * r > den THEN q + 1
        ELSE IF 2 * r < den THEN q
        ELSE IF q % 2 = 0 THEN q ELSE q + 1

\* the exponent j of the binade of num / den: 2^j <= num / den < 2^(j + 1)
RECURSIVE FloorLog2(_, _)
FloorLog2(num, den) ==
    IF num < den THEN FloorLog2(2 * num, den) - 1
    ELSE IF num >= 2 * den THEN FloorLog2(num, 2 * den) + 1
    ELSE 0

RECURSIVE Pow2(_)
Pow2(n) == IF n = 0 THEN 1 ELSE 2 * Pow2(n - 1)

\* 2^e modulo m
RECURSIVE Pow2Mod(_, _)
Pow2Mod(e, m) == IF e = 0 THEN 1 % m ELSE (2 * Pow2Mod(e - 1, m)) % m

\* "scale_factor = 508 / actual_duration" is the double M * 2^(-e) nearest
\* to the quotient, M a 53-bit integer.  The operator gives the error of M
\* in units of 1 / actual_duration: M - 508 * 2^e / actual_duration is
\* ScaleFactorError / actual_duration.  M is never half way between two
\* integers: that takes an odd divisor of 508 of 53 bits.
ScaleFactorError(actual_duration) ==
    LET e == 52 - FloorLog2(EXPECTED_MINUTES, actual_duration)
        r == ((EXPECTED_MINUTES % actual_duration)
                 * Pow2Mod(e, actual_duration)) % actual_duration
    IN  IF 2 * r < actual_duration THEN -r ELSE actual_duration - r

\* "scaled_dur = int(round(dur * scale_factor))" in double arithmetic.  The
\* errors of the division and of the product are far smaller than the
\* distance of a quotient from n + 1/2 unless the exact quotient
\* dur * 508 / actual_duration is n + 1/2 itself.  Then the product
\* dur * scale_factor is (n + 1/2) + dur * err / (actual_duration * 2^e);
\* it is rounded to the double n + 1/2 when that excess is at most half the
\* distance to the next double, and otherwise lies beside n + 1/2, on the
\* side of the sign of the error of scale_factor.
ScaledDur(dur, actual_duration) ==
    LET num   == dur * EXPECTED_MINUTES
        n     == num \div actual_duration
        tie   == (2 * num) % actual_duration = 0
                 /\ ((2 * num) \div actual_duration) % 2 = 1
        err   == ScaleFactorError(actual_duration)
        j     == FloorLog2(EXPECTED_MINUTES, actual_duration)
        k     == FloorLog2(2 * n + 1, 2)
        abs   == IF err < 0 THEN -err ELSE err
        gap   == IF err < 0 /\ 2 * n + 1 = Pow2(k + 1) THEN 4 ELSE 2
        equal == gap * dur * abs <= actual_duration * Pow2(k - j)
    IN  IF ~tie \/ err = 0 \/ equal
        THEN RoundHalfEven(num, actual_duration)
        ELSE IF err > 0 THEN n + 1 ELSE n

\* "current_scaled_time += timedelta(minutes=scaled_dur)"
AdvanceScaled_byRawDuration(current_scaled_time, dur, scaled_dur) ==
    AddMinutes(current_scaled_time, dur)

AdvanceScaled(current_scaled_time, dur, scaled_dur) ==
    AddMinutes(current_scaled_time, scaled_dur)

\* the loop building scaled_periods
RECURSIVE ScaledPeriods(_, _, _)
ScaledPeriods(records, current_scaled_time, actual_duration) ==
    IF records = <<>> THEN <<>>
    ELSE LET st         == records[1][1]
             dur        == records[1][2]
             scaled_dur == ScaledDur(dur, actual_duration)
         IN  << [type       |-> st,
                 minutes    |-> scaled_dur,
                 start_time |-> current_scaled_time] >>
             \o ScaledPeriods(Tail(records),
                    AdvanceScaled(current_scaled_time, dur, scaled_dur),
                    actual_duration)

\* the loop of the "Normal path"
RECURSIVE NormalPeriods(_, _)
NormalPeriods(records, current_time) ==
    IF records = <<>> THEN <<>>
    ELSE LET st  == records[1][1]
             dur == records[1][2]
         IN  << [type       |-> st,
                 minutes    |-> dur,
                 start_time |-> current_time] >>
             \o NormalPeriods(Tail(records), AddMinutes(current_time, dur))

\* the returned SleepDay; sleep_end is the local of that name, which the
\* constructor call does not use
MakeSleepDay_localSleepEnd(start_time, sleep_end, periods) ==
    [date        |-> DateOf(start_time),
     sleep_start |-> periods[1].start_time,
     sleep_end   |-> sleep_end,
     periods     |-> periods]

MakeSleepDay(start_time, sleep_end, periods) ==
    [date        |-> DateOf(start_time),
     sleep_start |-> periods[1].start_time,
     sleep_end   |-> AddMinutes(periods[Len(periods)].start_time,
                                periods[Len(periods)].minutes),
     periods     |-> periods]

\* get_sleep_data from "if timestamp is None" to the return, for a non-empty
\* all_records: the value of the local timestamp and the returned list
BuildSleepDays(records, ts, now) ==
    LET start_time      == IF ts = None THEN FallbackStart(now) ELSE ts[1]
        actual_duration == TotalDuration(records)
        rescale         == NeedsRescale(actual_duration)
        sleep_end       == IF rescale
                           THEN AddMinutes(start_time, EXPECTED_MINUTES)
                           ELSE AddMinutes(start_time, actual_duration)
        periods         == IF rescale
                           THEN ScaledPeriods(records, start_time,
                                              actual_duration)
                           ELSE NormalPeriods(records, start_time)
    IN  [timestamp |-> Some(start_time),
         days      |-> << MakeSleepDay(start_time, sleep_end, periods) >>]

(***************************************************************************)
(* Inputs: the notification frames the device may send and the readings of *)
(* the clock.                                                              *)
(***************************************************************************)
\* the request, which the device echoes as the header of its first frame
RequestPacket == <<BIG_DATA_MAGIC, SLEEP_DATA_ID, 0, 0, 255, 255>>

\* 2024-03-15 23:27:00, and the 30th of February
TsValid == <<24, 3, 15, 23, 27, 0>>
TsInvalid == <<24, 2, 30, 1, 2, 3>>

\* ten records of one minute of light sleep
Filler20 == <<2, 1, 2, 1, 2, 1, 2, 1, 2, 1, 2, 1, 2, 1, 2, 1, 2, 1, 2, 1>>

\* frames below 20 bytes without header: a lone byte, a record of duration
\* 0, a known and an unknown stage, two records of 254 minutes, and two
\* records whose scaled durations are exactly 190.5 and 317.5 minutes
ShortFrames ==
    { <<5>>,
      <<5, 0>>,
      <<3, 5>>,
      <<7, 9>>,
      <<2, 254, 3, 254>>,
      <<2, 39, 2, 65>> }

\* frames of 20 and 21 bytes
FullFrames == { Filler20, Filler20 \o <<5>> }

\* frames starting with the header pair: with marker and timestamp, with a
\* date that does not exist, with a truncated timestamp region, and without
\* marker (odd record bytes)
HeaderFrames ==
    { RequestPacket \o <<TS_MARKER>> \o TsValid \o <<2, 30>>,
      RequestPacket \o <<TS_MARKER>> \o TsInvalid \o <<2, 30>>,
      RequestPacket \o <<TS_MARKER>> \o SubSeq(TsValid, 1, 3),
      RequestPacket \o <<0, 0, 2, 30, 3>> }

Frames == ShortFrames \cup FullFrames \cup HeaderFrames

\* 2024-08-22 12:00:00 (before 23:27) and 23:30:00 (after 23:27)
NowSamples == {9000 * 86400 + 12 * 3600, 9000 * 86400 + 23 * 3600 + 30 * 60}

(***************************************************************************)
(* State of one call of get_sleep_data.                                    *)
(***************************************************************************)
VARIABLES
    all_records,        \* accumulator of <<sleep_type, duration, offset>>
    done_event,         \* asyncio.Event
    first_packet,       \* None or the frame handled as header
    timestamp,          \* None or the start time
    incomplete_record,  \* the carry buffer: None or a bytearray
    pc,                 \* position of the coroutine get_sleep_data
    notify_char,        \* the local notify_char: "unbound", "None" or "char"
    subscribed,         \* the transport invokes the handler
    result,             \* the returned list of SleepDay
    outcome,            \* the exit path taken
    received,           \* frames handed to the handler, in order
    written,            \* packets whose write_gatt_char has returned
    start_notify_calls, \* successful calls of client.start_notify
    stop_notify_calls   \* calls of client.stop_notify

sessionVars == <<all_records, done_event, first_packet, timestamp,
                 incomplete_record, pc, notify_char, subscribed, result,
                 outcome, received, written, start_notify_calls,
                 stop_notify_calls>>

(***************************************************************************)
(* State of one RingSettingsChecker and of its run of check_settings       *)
(* (check-intervals.py).                                                   *)
(***************************************************************************)
VARIABLES
    settings,           \* self.settings: sensor name -> SensorSettings
    response_event,     \* self.response_event
    current_command,    \* self.current_command: None or a command id
    chk_pc,             \* position of main / check_settings
    chk_query,          \* index of the query check_settings is at
    chk_written,        \* packets handed to write_gatt_char
    chk_last_frame,     \* None or the frame last handed to the handler
    chk_frames          \* number of frames handed to the handler

checkerVars == <<settings, response_event, current_command, chk_pc,
                 chk_query, chk_written, chk_last_frame, chk_frames>>

(***************************************************************************)
(* State of one call of get_battery_level (battery.py).                    *)
(***************************************************************************)
VARIABLES
    response_queue,     \* asyncio.Queue of the frames not yet taken
    bat_put_tasks,      \* frames whose task of response_queue.put has not run
    response,           \* None or the frame taken from the queue
    battery_info,       \* None or the parsed BatteryInfo
    bat_pc,             \* position of the coroutine get_battery_level
    bat_outcome,        \* the exit path taken
    bat_subscribed,     \* the transport invokes the handler
    bat_written,        \* packets written to the RX characteristic
    bat_frames,         \* number of frames handed to the handler
    bat_stop_notify_calls \* calls of client.stop_notify

batteryVars == <<response_queue, bat_put_tasks, response, battery_info, bat_pc,
                 bat_outcome,
                 bat_subscribed, bat_written, bat_frames,
                 bat_stop_notify_calls>>

(***************************************************************************)
(* One call of a function of the scripts on its own: the arguments and,    *)
(* once it has returned, its value.                                        *)
(***************************************************************************)
VARIABLES
    call_args,          \* None or Some([fn |-> name, ...arguments])
    call_result         \* None or Some(value returned)

callVars == <<call_args, call_result>>

(***************************************************************************)
(* State of one RingSettingsModifier and of its run of main                *)
(* (modify-intervals.py).                                                  *)
(***************************************************************************)
VARIABLES
    mod_settings,        \* self.settings: sensor name -> SensorSettings
    mod_response_event,  \* self.response_event
    mod_current_command, \* self.current_command: None or a command id
    mod_pc,              \* position of main / modify_all_settings
    mod_round,           \* 1: first get_current_settings, 2: the second
    mod_query,           \* index of the query or of the modify write
    mod_written,         \* packets handed to write_gatt_char
    mod_last_frame,      \* None or the frame last handed to the handler
    mod_frames,          \* number of frames handed to the handler
    mod_unanswered,      \* sensors whose query of this round timed out
    mod_report           \* None or the settings print_current_settings shows

modifierVars == <<mod_settings, mod_response_event, mod_current_command,
                  mod_pc, mod_round, mod_query, mod_written, mod_last_frame,
                  mod_frames, mod_unanswered, mod_report>>

(***************************************************************************)
(* State of one run of main of set-time.py.                                *)
(***************************************************************************)
VARIABLES
    time_pc,             \* where main and set_ring_time stand
    time_target,         \* None or the target_time of set_ring_time
    time_written,        \* packets handed to write_gatt_char
    time_outcome,        \* how set_ring_time went
    time_reported        \* TRUE once "Time set successfully" is printed

timeVars == <<time_pc, time_target, time_written, time_outcome, time_reported>>

(***************************************************************************)
(* State of one R02RingClient and of its task start_heart_rate_monitoring  *)
(* (live-hr.py).                                                           *)
(***************************************************************************)
VARIABLES
    heart_rate_queue,    \* asyncio.Queue of the readings
    hr_pc,               \* where start_heart_rate_monitoring stands
    hr_written,          \* packets handed to write_gatt_char
    hr_iterations,       \* iterations of "while True" begun
    hr_outcome,          \* how the task ended
    hr_last_frame,       \* None or the last frame given to the handler
    hr_frames            \* number of frames given to the handler

heartVars == <<heart_rate_queue, hr_pc, hr_written, hr_iterations, hr_outcome,
               hr_last_frame, hr_frames>>

vars == <<sessionVars, checkerVars, batteryVars, callVars, modifierVars,
          timeVars, heartVars>>

\* what a step of get_sleep_data leaves alone
outsideSession ==
    <<checkerVars, batteryVars, callVars, modifierVars, timeVars,
      heartVars>>

\* what a step of the RingSettingsChecker script leaves alone
outsideChecker ==
    <<sessionVars, batteryVars, callVars, modifierVars, timeVars,
      heartVars>>

\* what a step of get_battery_level leaves alone
outsideBattery ==
    <<sessionVars, checkerVars, callVars, modifierVars, timeVars,
      heartVars>>

\* what a step of the RingSettingsModifier script leaves alone
outsideModifier ==
    <<sessionVars, checkerVars, batteryVars, callVars, timeVars,
      heartVars>>

\* what a step of set-time.py leaves alone
outsideTime ==
    <<sessionVars, checkerVars, batteryVars, callVars, modifierVars,
      heartVars>>

\* what a step of live-hr.py leaves alone
outsideHeart ==
    <<sessionVars, checkerVars, batteryVars, callVars, modifierVars,
      timeVars>>

\* what a lone call of a function leaves alone
outsideCalls ==
    <<sessionVars, checkerVars, batteryVars, modifierVars, timeVars,
      heartVars>>

handlerVars == <<all_records, done_event, first_packet, timestamp,
                 incomplete_record>>

HandlerState ==
    [all_records       |-> all_records,
     first_packet      |-> first_packet,
     timestamp         |-> timestamp,
     incomplete_record |-> incomplete_record,
     done_event        |-> done_event]

\* the locals of get_sleep_data before its first await
SessionInit ==
    /\ all_records = InitialHandlerState.all_records
    /\ done_event = InitialHandlerState.done_event
    /\ first_packet = InitialHandlerState.first_packet
    /\ timestamp = InitialHandlerState.timestamp
    /\ incomplete_record = InitialHandlerState.incomplete_record
    /\ pc = "lookup"
    /\ notify_char = "unbound"
    /\ subscribed = FALSE
    /\ result = <<>>
    /\ outcome = "running"
    /\ received = <<>>
    /\ written = <<>>
    /\ start_notify_calls = 0
    /\ stop_notify_calls = 0

\* RingSettingsChecker.__init__
CheckerInit ==
    /\ settings = <<>>
    /\ response_event = FALSE
    /\ current_command = None
    /\ chk_pc = "connect"
    /\ chk_query = 1
    /\ chk_written = <<>>
    /\ chk_last_frame = None
    /\ chk_frames = 0

\* get_battery_level parked in its first await, the connect of
\* "async with BleakClient(device) as client"; response_queue stands for the
\* queue the function creates before it subscribes
BatteryInit ==
    /\ response_queue = <<>>
    /\ bat_put_tasks = <<>>
    /\ response = None
    /\ battery_info = None
    /\ bat_pc = "connect"
    /\ bat_outcome = "running"
    /\ bat_subscribed = FALSE
    /\ bat_written = <<>>
    /\ bat_frames = 0
    /\ bat_stop_notify_calls = 0

\* no function is being called on its own
CallIdle ==
    /\ call_args = None
    /\ call_result = None

\* RingSettingsModifier.__init__: every sensor disabled, interval 0
ModifierInit ==
    /\ mod_settings =
           [k \in {"heart_rate", "blood_oxygen", "pressure", "hrv"} |->
               [enabled |-> FALSE, interval |-> 0]]
    /\ mod_response_event = FALSE
    /\ mod_current_command = None
    /\ mod_pc = "connect"
    /\ mod_round = 1
    /\ mod_query = 1
    /\ mod_written = <<>>
    /\ mod_last_frame = None
    /\ mod_frames = 0
    /\ mod_unanswered = {}
    /\ mod_report = None

\* main of set-time.py has found a ring and is about to connect
TimeInit ==
    /\ time_pc = "connect"
    /\ time_target = None
    /\ time_written = <<>>
    /\ time_outcome = "running"
    /\ time_reported = FALSE

\* main of live-hr.py has connected, which subscribes the handler, and has
\* created the task of start_heart_rate_monitoring
HeartInit ==
    /\ heart_rate_queue = <<>>
    /\ hr_pc = "start"
    /\ hr_written = <<>>
    /\ hr_iterations = 0
    /\ hr_outcome = "running"
    /\ hr_last_frame = None
    /\ hr_frames = 0

Init ==
    /\ SessionInit
    /\ CheckerInit
    /\ BatteryInit
    /\ CallIdle
    /\ ModifierInit
    /\ TimeInit
    /\ HeartInit

\* "return []" or an exception inside the try block: control goes to finally
ExitTo(kind) ==
    /\ pc' = "finally"
    /\ outcome' = kind
    /\ result' = <<>>

\* lookup of the service and of its two characteristics
LookupService ==
    /\ pc = "lookup"
    /\ \E found \in {"all", "no_service", "no_notify_char", "no_write_char"} :
        CASE found = "all" ->
                /\ notify_char' = "char"
                /\ pc' = "start_notify"
                /\ UNCHANGED <<outcome, result>>
          [] found = "no_service" ->
                /\ notify_char' = notify_char
                /\ ExitTo("no_service")
          [] found = "no_notify_char" ->
                /\ notify_char' = "None"
                /\ ExitTo("no_characteristic")
          [] found = "no_write_char" ->
                /\ notify_char' = "char"
                /\ ExitTo("no_characteristic")
    /\ UNCHANGED <<handlerVars, subscribed, received, written,
                   start_notify_calls, stop_notify_calls>>
    /\ UNCHANGED outsideSession

\* "await client.start_notify(notify_char, notification_handler)" returns
\* or raises; when it has returned the coroutine calls write_gatt_char and
\* is parked in that await
StartNotify ==
    /\ pc = "start_notify"
    /\ \E ok \in BOOLEAN :
        IF ok
        THEN /\ subscribed' = TRUE
             /\ start_notify_calls' = start_notify_calls + 1
             /\ pc' = "write"
             /\ UNCHANGED <<outcome, result>>
        ELSE /\ ExitTo("transport_error")
             /\ UNCHANGED <<subscribed, start_notify_calls>>
    /\ UNCHANGED <<handlerVars, notify_char, received, written,
                   stop_notify_calls>>
    /\ UNCHANGED outsideSession

\* the request written twice
WriteRequest_twice ==
    /\ pc = "write"
    /\ \E ok \in BOOLEAN :
        IF ok
        THEN /\ written' = written \o <<RequestPacket, RequestPacket>>
             /\ pc' = "wait"
             /\ UNCHANGED <<outcome, result>>
        ELSE /\ ExitTo("transport_error")
             /\ UNCHANGED written
    /\ UNCHANGED <<handlerVars, notify_char, subscribed, received,
                   start_notify_calls, stop_notify_calls>>
    /\ UNCHANGED outsideSession

\* "await client.write_gatt_char(write_char, packet)" returns or raises;
\* when it has returned the coroutine is parked in wait_for
WriteRequest ==
    /\ pc = "write"
    /\ \E ok \in BOOLEAN :
        IF ok
        THEN /\ written' = Append(written, RequestPacket)
             /\ pc' = "wait"
             /\ UNCHANGED <<outcome, result>>
        ELSE /\ ExitTo("transport_error")
             /\ UNCHANGED written
    /\ UNCHANGED <<handlerVars, notify_char, subscribed, received,
                   start_notify_calls, stop_notify_calls>>
    /\ UNCHANGED outsideSession

\* the transport delivers one frame to the handler while the coroutine is
\* parked in an await: in start_notify, where the callback is registered
\* already, in write_gatt_char, in wait_for (before and after its timer has
\* fired, and after a cancellation was requested), or in stop_notify, where
\* frames keep coming until the subscription is released
Notify ==
    /\ \/ pc = "start_notify"
       \/ /\ subscribed
          /\ pc \in {"write", "wait", "expired", "cancelling",
                    "cancelling_early", "finally"}
    /\ Len(received) < MaxFrames
    /\ \E data \in Frames, now \in NowSamples :
        LET hs == notification_handler(HandlerState, data, now)
        IN  /\ all_records' = hs.all_records
            /\ first_packet' = hs.first_packet
            /\ timestamp' = hs.timestamp
            /\ incomplete_record' = hs.incomplete_record
            /\ done_event' = hs.done_event
            /\ received' = Append(received, data)
    /\ UNCHANGED <<pc, notify_char, subscribed, result, outcome, written,
                   start_notify_calls, stop_notify_calls>>
    /\ UNCHANGED outsideSession

\* wait_for returns because done_event is set: the rest of the try block.
\* After a cancellation requested before the first step of the task of
\* done_event.wait() (pc cancelling_early), that step finds done_event set by
\* a frame handled since, the task is done when the coroutine runs again,
\* and wait_for returns its result: the CancelledError is dropped
Complete ==
    /\ pc \in {"wait", "cancelling_early"}
    /\ done_event
    /\ pc' = "finally"
    /\ IF all_records = <<>>
       THEN /\ result' = <<>>
            /\ outcome' = "empty"
            /\ UNCHANGED timestamp
       ELSE \E now \in NowSamples :
            LET built == BuildSleepDays(all_records, timestamp, now)
            IN  /\ result' = built.days
                /\ timestamp' = built.timestamp
                /\ outcome' = "day"
    /\ UNCHANGED <<all_records, done_event, first_packet, incomplete_record,
                   notify_char, subscribed, received, written,
                   start_notify_calls, stop_notify_calls>>
    /\ UNCHANGED outsideSession

\* the timer of "asyncio.wait_for(done_event.wait(), timeout=10.0)" fires
\* while done_event is clear: the waiter of wait_for is released, and the
\* coroutine runs again a turn of the event loop later
TimerExpires ==
    /\ pc = "wait"
    /\ ~done_event
    /\ pc' = "expired"
    /\ UNCHANGED <<handlerVars, notify_char, subscribed, result, outcome,
                   received, written, start_notify_calls, stop_notify_calls>>
    /\ UNCHANGED outsideSession

\* a timeout that returns the day built from the records received so far
Timeout_returnsPartial ==
    /\ pc = "expired"
    /\ pc' = "finally"
    /\ outcome' = "timeout"
    /\ result' = IF all_records = <<>> THEN <<>>
                 ELSE BuildSleepDays(all_records, timestamp, 0).days
    /\ UNCHANGED <<handlerVars, notify_char, subscribed, received, written,
                   start_notify_calls, stop_notify_calls>>
    /\ UNCHANGED outsideSession

\* the coroutine runs again after the timer has fired: wait_for cancels the
\* task of done_event.wait(), which had not finished when the timer fired,
\* and raises TimeoutError, also when a frame handled in between has set
\* done_event; "except asyncio.TimeoutError: return []"
Timeout ==
    /\ pc = "expired"
    /\ ExitTo("timeout")
    /\ UNCHANGED <<handlerVars, notify_char, subscribed, received, written,
                   start_notify_calls, stop_notify_calls>>
    /\ UNCHANGED outsideSession

\* task.cancel() is called while the coroutine is parked in the wait with
\* done_event clear: the waiter of wait_for is cancelled, and the coroutine
\* runs again a turn of the event loop later.  The task of done_event.wait()
\* that wait_for created is either parked on the event by then (pc
\* cancelling) or has not had its first step yet (pc cancelling_early), which
\* the event loop decides.  (Called after a frame has set done_event, the
\* cancellation is dropped by the wait_for of this Python, which returns the
\* result of the wait that is done: that run is Complete.)
CancelRequested ==
    /\ pc = "wait"
    /\ ~done_event
    /\ pc' \in {"cancelling", "cancelling_early"}
    /\ UNCHANGED <<handlerVars, notify_char, subscribed, result, outcome,
                   received, written, start_notify_calls, stop_notify_calls>>
    /\ UNCHANGED outsideSession

\* after a cancellation requested before its first step, the task of
\* done_event.wait() runs that step with done_event clear and parks on the
\* event
WaitTaskParks ==
    /\ pc = "cancelling_early"
    /\ ~done_event
    /\ pc' = "cancelling"
    /\ UNCHANGED <<handlerVars, notify_char, subscribed, result, outcome,
                   received, written, start_notify_calls, stop_notify_calls>>
    /\ UNCHANGED outsideSession

\* the CancelledError is raised in the coroutine: at the await of
\* start_notify or of write_gatt_char, or in the wait, after the cancellation
\* was requested there or after the timer has fired.  With the task of
\* done_event.wait() parked on the event when the cancellation was requested
\* (pc cancelling), a frame handled since the request may have set
\* done_event and the CancelledError is raised all the same; with that task
\* not yet run (pc cancelling_early), it is raised when done_event is still
\* clear at the first step of the task
Cancel ==
    /\ \/ pc \in {"start_notify", "write", "expired", "cancelling"}
       \/ pc = "cancelling_early" /\ ~done_event
    /\ ExitTo("cancelled")
    /\ UNCHANGED <<handlerVars, notify_char, subscribed, received, written,
                   start_notify_calls, stop_notify_calls>>
    /\ UNCHANGED outsideSession

\* stop_notify as the last statement of the try block instead of a finally
Finally_onlyAfterCompletion ==
    /\ pc = "finally"
    /\ pc' = "returned"
    /\ IF notify_char # "unbound" /\ outcome = "day"
       THEN /\ stop_notify_calls' = stop_notify_calls + 1
            /\ subscribed' = FALSE
       ELSE UNCHANGED <<stop_notify_calls, subscribed>>
    /\ UNCHANGED <<handlerVars, notify_char, result, outcome, received,
                   written, start_notify_calls>>
    /\ UNCHANGED outsideSession

\* "finally: if 'notify_char' in locals(): await client.stop_notify(...)":
\* the await returns, raises, or the task is cancelled in it; an exception
\* of the finally block replaces the return value
Finally ==
    /\ pc = "finally"
    /\ pc' = "returned"
    /\ IF notify_char # "unbound"
       THEN /\ stop_notify_calls' = stop_notify_calls + 1
            /\ subscribed' = FALSE
            /\ \E how \in {"ok", "transport_error", "cancelled"} :
                 IF how = "ok"
                 THEN UNCHANGED <<result, outcome>>
                 ELSE /\ result' = <<>>
                      /\ outcome' = how
       ELSE UNCHANGED <<stop_notify_calls, subscribed, result, outcome>>
    /\ UNCHANGED <<handlerVars, notify_char, received, written,
                   start_notify_calls>>
    /\ UNCHANGED outsideSession

Next ==
    \/ LookupService
    \/ StartNotify
    \/ WriteRequest
    \/ Notify
    \/ Complete
    \/ TimerExpires
    \/ Timeout
    \/ CancelRequested
    \/ WaitTaskParks
    \/ Cancel
    \/ Finally

Spec == Init /\ [][Next]_vars

(***************************************************************************)
(* Properties of the bulk session.                                         *)
(***************************************************************************)
\* the accumulator without the offsets: (stage, duration)
StageDurations(records) ==
    [k \in 1..Len(records) |-> <<records[k][1], records[k][2]>>]

\* the closure state after the handler has been called on each frame in turn
\* (the clock reading only enters the timestamp, which is not compared)
RECURSIVE HandlerRun(_, _)
HandlerRun(hs, frames) ==
    IF frames = <<>> THEN hs
    ELSE HandlerRun(notification_handler(hs, frames[1], 0), Tail(frames))

\* the last two frames are the two parts of an even-length stream of pairs
\* that starts on a record boundary, and the two parts as well as the whole
\* stream are handled as continuation frames
SplitDelivered ==
    /\ Len(received) >= 2
    /\ LET n      == Len(received)
           f1     == received[n - 1]
           f2     == received[n]
           before == HandlerRun(InitialHandlerState, SubSeq(received, 1, n - 2))
       IN  /\ Len(f1) >= 1
           /\ Len(f2) >= 1
           /\ (Len(f1) + Len(f2)) % 2 = 0
           /\ ~Truthy(before.incomplete_record)
           /\ ~IsHeaderFrame(before.first_packet, f1)
           /\ ~IsHeaderFrame(before.first_packet, f2)
           /\ ~IsHeaderFrame(before.first_packet, f1 \o f2)

\* the accumulator had the stream of the last two frames come as one frame
RecordsIfUnsplit ==
    LET n == Len(received)
    IN  HandlerRun(InitialHandlerState,
                   SubSeq(received, 1, n - 2)
                       \o << received[n - 1] \o received[n] >>).all_records

\* C1: carry-buffer transparency: an even-length stream of (stage, duration)
\* pairs delivered as two continuation frames, split at any point, accumulates
\* the same (stage, duration) records as the stream delivered as one frame.
C1_CarryTransparency ==
    SplitDelivered =>
        StageDurations(all_records) = StageDurations(RecordsIfUnsplit)

\* a stream split inside a record after a header frame, both records kept
C1_Witness ==
    /\ SplitDelivered
    /\ first_packet # None
    /\ Len(received[Len(received) - 1]) % 2 = 1
    /\ Len(received) = 3
    /\ Len(all_records) >=
         Len(HandlerRun(InitialHandlerState, <<received[1]>>).all_records) + 2

\* C2: any received frame shorter than 20 bytes completes the session,
\* whichever frame of the stream it is (the header frame included).
C2_ShortFrameCompletes ==
    (\E i \in 1..Len(received) : Len(received[i]) < SHORT_PACKET_LEN)
        => done_event

AllFramesFull ==
    \A i \in 1..Len(received) : Len(received[i]) >= SHORT_PACKET_LEN

\* C3: if every received frame has at least 20 bytes the completion event is
\* never set and the call does not end through the completion path.
C3_FullFramesNeverComplete ==
    AllFramesFull => (~done_event /\ outcome \notin {"empty", "day"})

\* two full frames were received, records were accumulated, and the call
\* ended by the timeout
C3_Witness ==
    /\ AllFramesFull
    /\ Len(received) >= 2
    /\ Len(all_records) >= 20
    /\ outcome = "timeout"
    /\ pc = "returned"

\* C4: every returned SleepPeriod has the minutes of the duration byte of its
\* record, whatever the durations add up to.
C4_MinutesAreDurationBytes ==
    outcome = "day" =>
        \A k \in 1..Len(result[1].periods) :
            result[1].periods[k].minutes = all_records[k][2]

\* the first packet carries the marker, a complete timestamp region and a
\* date that exists
HasEmbeddedTimestamp(data) ==
    /\ Contains(data, TS_MARKER)
    /\ IndexOf(data, TS_MARKER) + 1 + 6 <= Len(data)
    /\ LET i == IndexOf(data, TS_MARKER) + 1
       IN  ValidDateTime(2000 + data[i + 1], data[i + 2], data[i + 3],
                         data[i + 4], data[i + 5], data[i + 6])

EmbeddedTimestamp(data) ==
    LET i == IndexOf(data, TS_MARKER) + 1
    IN  ToSeconds(2000 + data[i + 1], data[i + 2], data[i + 3],
                  data[i + 4], data[i + 5], data[i + 6])

\* C5: a returned SleepDay starts at a timestamp recovered from the stream,
\* never at a time made up from the clock or from a fixed time of day.
C5_StartNeverFabricated ==
    outcome = "day" =>
        /\ first_packet # None
        /\ HasEmbeddedTimestamp(first_packet[1])
        /\ result[1].sleep_start = EmbeddedTimestamp(first_packet[1])

RECURSIVE SumMinutes(_)
SumMinutes(periods) ==
    IF periods = <<>> THEN 0
    ELSE periods[1].minutes + SumMinutes(Tail(periods))

\* C6: for every returned SleepDay, sleep_end minus sleep_start is the sum of
\* the minutes of its periods.
C6_SleepEndIsStartPlusMinutes ==
    \A i \in 1..Len(result) :
        result[i].sleep_end - result[i].sleep_start
            = 60 * SumMinutes(result[i].periods)

\* a rescaled day of several periods whose rounded minutes do not add up to
\* the expected total
C6_Witness ==
    /\ outcome = "day"
    /\ Len(result[1].periods) >= 2
    /\ \E k \in 1..Len(result[1].periods) :
        result[1].periods[k].minutes # all_records[k][2]
    /\ SumMinutes(result[1].periods) # EXPECTED_MINUTES

\* a day built on the normal path
C6_WitnessNormalPath ==
    /\ outcome = "day"
    /\ Len(result[1].periods) >= 2
    /\ \A k \in 1..Len(result[1].periods) :
        result[1].periods[k].minutes = all_records[k][2]

\* the step that returns a SleepDay
ReturnsDay ==
    /\ pc \in {"wait", "cancelling_early"}
    /\ pc' = "finally"
    /\ outcome' = "day"

\* C7: the periods of a returned SleepDay are contiguous and in arrival
\* order: the first starts at the session start, each next one starts where
\* the previous one ends, and the k-th period has the stage of the k-th
\* accumulated record, one period per record.
C7_PeriodsContiguousInOrder ==
    [][ReturnsDay =>
        LET ps == result'[1].periods
        IN  /\ Len(result') = 1
            /\ Len(ps) = Len(all_records)
            /\ timestamp # None => timestamp' = timestamp
            /\ ps[1].start_time = timestamp'[1]
            /\ result'[1].sleep_start = timestamp'[1]
            /\ \A k \in 1..Len(ps) : ps[k].type = all_records[k][1]
            /\ \A k \in 2..Len(ps) :
                ps[k].start_time
                    = ps[k - 1].start_time + 60 * ps[k - 1].minutes]_vars

\* a returned day of at least three periods of different stages
C7_Witness ==
    /\ outcome = "day"
    /\ Len(result[1].periods) >= 3
    /\ result[1].periods[1].type # result[1].periods[2].type
    /\ result[1].periods[2].start_time > result[1].periods[1].start_time

\* C8: the carry buffer holds 0 or 1 byte in every state of the session.
C8_CarryAtMostOneByte ==
    incomplete_record = None \/ Len(incomplete_record[1]) <= 1

\* a byte is pending after a header frame and a further frame
C8_Witness ==
    /\ first_packet # None
    /\ Len(received) >= 2
    /\ Truthy(incomplete_record)

\* C9: whenever the session is complete the carry buffer holds no byte.
C9_CarryClearedAtCompletion ==
    done_event => ~Truthy(incomplete_record)

\* the record bytes of a frame: what the handler passes on to the carry step
RecordData(header_done, data) ==
    IF ~header_done /\ StartsWith(data, <<BIG_DATA_MAGIC, SLEEP_DATA_ID>>)
    THEN IF Contains(data, TS_MARKER)
         THEN SliceFrom(data, IndexOf(data, TS_MARKER) + 1 + 6)
         ELSE SliceFrom(data, HEADER_SKIP)
    ELSE data

RECURSIVE RecordStream(_, _)
RecordStream(header_done, frames) ==
    IF frames = <<>> THEN <<>>
    ELSE RecordData(header_done, frames[1])
         \o RecordStream(header_done
                            \/ StartsWith(frames[1],
                                          <<BIG_DATA_MAGIC, SLEEP_DATA_ID>>),
                         Tail(frames))

\* C10: every complete (stage, duration) pair received is accumulated, one
\* record per pair, pairs of duration 0 included.
C10_EveryPairAccumulated ==
    Len(all_records) = Len(RecordStream(FALSE, received)) \div 2

(***************************************************************************)
(* parse_sleep_records and the handler's treatment of a first frame, each  *)
(* called on its own.                                                      *)
(***************************************************************************)
\* durations of the one record handed to parse_sleep_records
DurationSamples == {0, 1, 87, 255}

\* one (stage, duration) pair for every stage byte
ParseCalls ==
    { [fn |-> "parse_sleep_records", data |-> <<raw, dur>>, start_offset |-> 0] :
        raw \in 0..255, dur \in DurationSamples }

\* the six header bytes with a given low length byte
HeaderWithLength(len_lo) ==
    <<BIG_DATA_MAGIC, SLEEP_DATA_ID, 0, len_lo, 255, 255>>

\* what follows the header: marker and timestamp, or two more bytes to skip
AfterHeader ==
    { <<TS_MARKER>> \o TsValid,
      <<TS_MARKER>> \o TsInvalid,
      <<0, 0>>,
      <<1, 0>> }

\* record bytes of a first frame: even and odd, with 0x57 as a duration and
\* as a stage, and none
FirstFrameBodies ==
    { <<2, 30>>, <<2, 30, 3>>, <<2, 87>>, <<87, 5, 3, 5>>, <<>> }

\* first frames: the length byte is 0, 20 or 0x57
FirstFrames ==
    { HeaderWithLength(len_lo) \o mid \o body :
        len_lo \in {0, 20, TS_MARKER}, mid \in AfterHeader,
        body \in FirstFrameBodies }

HandlerCalls ==
    { [fn |-> "notification_handler", data |-> data, now |-> now] :
        data \in FirstFrames, now \in NowSamples }

\* "records = parse_sleep_records(data, start_offset)"
CallParseSleepRecords ==
    /\ call_args # None
    /\ call_result = None
    /\ call_args[1].fn = "parse_sleep_records"
    /\ call_result' = Some(parse_sleep_records(call_args[1].data,
                                               call_args[1].start_offset))
    /\ UNCHANGED <<call_args, outsideCalls>>

\* the handler of a new session is handed its first frame
CallNotificationHandler ==
    /\ call_args # None
    /\ call_result = None
    /\ call_args[1].fn = "notification_handler"
    /\ call_result' = Some(notification_handler(InitialHandlerState,
                                                call_args[1].data,
                                                call_args[1].now))
    /\ UNCHANGED <<call_args, outsideCalls>>

\* parse_sleep_records has returned
ParseReturned ==
    /\ call_result # None
    /\ call_args[1].fn = "parse_sleep_records"

\* C11: for every stage byte 0..255 parsing never rejects the frame: the bytes
\* 0x00, 0x02, 0x03, 0x04, 0x05 map to NoData, Light, Deep, REM, Awake, every
\* other byte maps to Unknown, and the record (an Unknown one too) is kept in
\* the accumulator rather than dropped.
C11_EveryStageByteKept ==
    ParseReturned =>
        LET raw      == call_args[1].data[1]
            dur      == call_args[1].data[2]
            expected == IF raw \in {0, 2, 3, 4, 5} THEN raw ELSE -1
        IN  StageDurations(call_result[1]) = << <<expected, dur>> >>

\* the handler has returned from the first frame of a session
FirstFrameHandled ==
    /\ call_result # None
    /\ call_args[1].fn = "notification_handler"

\* the bytes of sleep_data that one pass parses: all of them, or all but the
\* last when their number is odd
ParsedPart(sleep_data) ==
    IF Len(sleep_data) % 2 # 0 THEN DropLast(sleep_data) ELSE sleep_data

\* the byte that follows the 6-byte header is the marker
MarkerFollowsHeader(data) == Len(data) >= 7 /\ data[7] = 87

\* C12: for a first frame beginning 0xBC 0x27 in which no marker 0x57 follows
\* the header, record data starts at the fixed offset 8 and no timestamp is
\* decoded, even when a later byte (a length, stage or duration byte) happens
\* to equal 0x57.
C12_NoMarkerMeansOffset8 ==
    (FirstFrameHandled /\ ~MarkerFollowsHeader(call_args[1].data)) =>
        LET data == call_args[1].data
            hs   == call_result[1]
        IN  /\ hs.timestamp = None
            /\ hs.all_records =
                   parse_sleep_records(ParsedPart(SliceFrom(data, 8)), 8)

\* C13: for a first frame with the marker 0x57 immediately after the 6-byte
\* header and at least 6 bytes after the marker, the start timestamp is year
\* 2000+b0, month b1, day b2, hour b3, minute b4, second b5 read as plain
\* integers, and record parsing begins at the byte after the 6 timestamp
\* bytes.
C13_MarkerTimestampPlainIntegers ==
    LET data == call_args[1].data
    IN  (/\ FirstFrameHandled
         /\ MarkerFollowsHeader(data)
         /\ Len(data) >= 13
         /\ ValidDateTime(2000 + data[8], data[9], data[10], data[11],
                          data[12], data[13])) =>
            LET hs == call_result[1]
            IN  /\ hs.timestamp =
                       Some(ToSeconds(2000 + data[8], data[9], data[10],
                                      data[11], data[12], data[13]))
                /\ hs.all_records =
                       parse_sleep_records(ParsedPart(SliceFrom(data, 13)), 13)

(***************************************************************************)
(* Properties of the bulk session: completion, timeout, subscription and   *)
(* request.                                                                *)
(***************************************************************************)
\* C14: Complete is terminal: once a frame has set the completion event, any
\* frame delivered afterwards (before the subscription is released) changes
\* neither the accumulated records, nor the carry buffer, nor the timestamp.
C14_CompleteIsTerminal ==
    [][(done_event /\ received' # received) =>
           /\ all_records' = all_records
           /\ incomplete_record' = incomplete_record
           /\ timestamp' = timestamp]_vars

\* C15: if the session times out before completion, get_sleep_data returns no
\* SleepDay at all, whatever number of records was accumulated.
C15_TimeoutReturnsNothing ==
    outcome = "timeout" => result = <<>>

\* the call has returned after a timeout with records in the accumulator
C15_Witness ==
    /\ pc = "returned"
    /\ outcome = "timeout"
    /\ all_records # <<>>
    /\ result = <<>>

\* C16: once start_notify has succeeded, stop_notify is called exactly once on
\* every exit path (completion, empty result, timeout, failure of the request
\* write, cancellation while waiting): never twice, and once get_sleep_data
\* has returned, once.
C16_StopNotifyExactlyOnce ==
    /\ stop_notify_calls <= 1
    /\ (pc = "returned" /\ start_notify_calls = 1) =>
           /\ stop_notify_calls = 1
           /\ ~subscribed

\* the call was cancelled in the wait, a frame handled between the request
\* and the CancelledError has set done_event, and the call has returned
C16_Witness ==
    /\ pc = "returned"
    /\ outcome = "cancelled"
    /\ Len(written) = 1
    /\ received # <<>>
    /\ done_event
    /\ start_notify_calls = 1
    /\ stop_notify_calls = 1

\* C17: header handling is resolved once per session: the frame it is applied
\* to is the first frame received, and every later frame, even one beginning
\* with 0xBC 0x27, is parsed entirely as record data.
C17_HeaderOnlyOnFirstFrame ==
    first_packet # None =>
        /\ received # <<>>
        /\ first_packet[1] = received[1]

\* the write of the request has returned: the coroutine waits for the
\* completion, or has left the wait by completion or by timeout
RequestWritten ==
    \/ pc \in {"wait", "expired", "cancelling", "cancelling_early"}
    \/ /\ pc \in {"finally", "returned"}
       /\ outcome \in {"day", "empty", "timeout"}

\* C18: each call starts with an empty accumulator, an empty carry buffer and
\* no timestamp, and writes exactly one request, equal to the six bytes
\* BC 27 00 00 FF FF; it writes nothing more, also when the session times out.
C18_OneRequestFreshState ==
    /\ Len(written) <= 1
    /\ \A k \in DOMAIN written : written[k] = <<188, 39, 0, 0, 255, 255>>
    /\ RequestWritten => Len(written) = 1
    /\ received = <<>> =>
           /\ all_records = <<>>
           /\ incomplete_record = None
           /\ timestamp = None

\* the session timed out after frames had come and the call has returned: one
\* request was written
C18_Witness ==
    /\ pc = "returned"
    /\ outcome = "timeout"
    /\ received # <<>>
    /\ written = << <<188, 39, 0, 0, 255, 255>> >>

(***************************************************************************)
(* check-intervals.py: RingSettingsChecker.                                *)
(***************************************************************************)
\* frames handed to the handler of one RingSettingsChecker
MaxCheckerFrames == 5

CMD_HEART_RATE_LOG_SETTINGS == 22
CMD_BLOOD_OXYGEN == 44
CMD_PRESSURE == 54
CMD_HRV == 56

\* the commands check_settings sends, in its order
QueryCommands ==
    <<CMD_HEART_RATE_LOG_SETTINGS, CMD_BLOOD_OXYGEN, CMD_PRESSURE, CMD_HRV>>

RECURSIVE SumBytes(_)
SumBytes(bytes) ==
    IF bytes = <<>> THEN 0 ELSE bytes[1] + SumBytes(Tail(bytes))

Zeros(n) == [k \in 1..n |-> 0]

\* the checksum taken modulo 255, as the comment of battery.py words it
checker_make_packet_mod255(command, sub_data) ==
    LET head == <<command>> \o sub_data \o Zeros(14 - Len(sub_data))
    IN  head \o << SumBytes(head) % 255 >>

\* make_packet of check-intervals.py, for sub_data of at most 14 bytes: the
\* checksum is the sum of the first 15 bytes mod 256
checker_make_packet(command, sub_data) ==
    LET head == <<command>> \o sub_data \o Zeros(14 - Len(sub_data))
    IN  head \o << SumBytes(head) % 256 >>

\* every nonzero byte taken for "enabled"
EnabledFlag_nonzero(raw_enabled) == raw_enabled # 0

\* "enabled = True if raw_enabled == 1 else False", "enabled = data[2] == 1"
EnabledFlag(raw_enabled) == raw_enabled = 1

\* SensorSettings(enabled, interval=0)
SensorSettings(enabled, interval) ==
    [enabled |-> enabled, interval |-> interval]

\* "self.settings[key] = value"
DictPut(dict, key, value) ==
    [k \in DOMAIN dict \cup {key} |-> IF k = key THEN value ELSE dict[k]]

\* RingSettingsChecker.notification_handler without the test of the command
\* against current_command
checker_notification_handler_acceptsAny(st, data) ==
    IF Len(data) = 0 THEN st
    ELSE
        LET command == data[1]
        IN  IF command = CMD_HEART_RATE_LOG_SETTINGS
            THEN IF Len(data) < 4 THEN st
                 ELSE [st EXCEPT
                          !.settings = DictPut(@, "heart_rate",
                              SensorSettings(EnabledFlag(data[3]), data[4])),
                          !.response_event = TRUE]
            ELSE IF command \in {CMD_BLOOD_OXYGEN, CMD_PRESSURE, CMD_HRV}
            THEN IF Len(data) < 3 THEN st
                 ELSE LET key == IF command = CMD_BLOOD_OXYGEN
                                 THEN "blood_oxygen"
                                 ELSE IF command = CMD_PRESSURE
                                 THEN "pressure" ELSE "hrv"
                      IN  [st EXCEPT
                              !.settings = DictPut(@, key,
                                  SensorSettings(EnabledFlag(data[3]), 0)),
                              !.response_event = TRUE]
            ELSE [st EXCEPT !.response_event = TRUE]

\* a heart-rate frame of three bytes stored with its enabled flag and the
\* interval 0, and taken as the answer
checker_notification_handler_partial(st, data) ==
    IF Len(data) = 0 THEN st
    ELSE
        LET command == data[1]
        IN  IF Some(command) # st.current_command THEN st
            ELSE IF command = CMD_HEART_RATE_LOG_SETTINGS
            THEN IF Len(data) < 3 THEN st
                 ELSE [st EXCEPT
                          !.settings = DictPut(@, "heart_rate",
                              SensorSettings(EnabledFlag(data[3]),
                                  IF Len(data) < 4 THEN 0 ELSE data[4])),
                          !.response_event = TRUE]
            ELSE IF command \in {CMD_BLOOD_OXYGEN, CMD_PRESSURE, CMD_HRV}
            THEN IF Len(data) < 3 THEN st
                 ELSE [st EXCEPT
                          !.settings = DictPut(@,
                              IF command = CMD_BLOOD_OXYGEN THEN "blood_oxygen"
                              ELSE IF command = CMD_PRESSURE THEN "pressure"
                              ELSE "hrv",
                              SensorSettings(EnabledFlag(data[3]), 0)),
                          !.response_event = TRUE]
            ELSE [st EXCEPT !.response_event = TRUE]

\* RingSettingsChecker.notification_handler.  st is
\*   [settings, response_event, current_command]
\* and the result is st after the call.  An IndexError (empty frame, frame
\* too short for data[2] or data[3]) is raised before any assignment and is
\* caught and logged.
checker_notification_handler(st, data) ==
    IF Len(data) = 0 THEN st
    ELSE
        LET command == data[1]
        IN  IF Some(command) # st.current_command THEN st
            ELSE IF command = CMD_HEART_RATE_LOG_SETTINGS
            THEN IF Len(data) < 4 THEN st
                 ELSE [st EXCEPT
                          !.settings = DictPut(@, "heart_rate",
                              SensorSettings(EnabledFlag(data[3]), data[4])),
                          !.response_event = TRUE]
            ELSE IF command \in {CMD_BLOOD_OXYGEN, CMD_PRESSURE, CMD_HRV}
            THEN IF Len(data) < 3 THEN st
                 ELSE LET key == IF command = CMD_BLOOD_OXYGEN
                                 THEN "blood_oxygen"
                                 ELSE IF command = CMD_PRESSURE
                                 THEN "pressure" ELSE "hrv"
                      IN  [st EXCEPT
                              !.settings = DictPut(@, key,
                                  SensorSettings(EnabledFlag(data[3]), 0)),
                              !.response_event = TRUE]
            ELSE [st EXCEPT !.response_event = TRUE]

\* frames of the device: answers to the four queries (16 bytes), the answer
\* to a battery query, frames cut short, and the empty frame
CheckerFrames ==
    { checker_make_packet(CMD_HEART_RATE_LOG_SETTINGS, <<1, 1, 30>>),
      checker_make_packet(CMD_HEART_RATE_LOG_SETTINGS, <<1, 0, 5>>),
      <<CMD_HEART_RATE_LOG_SETTINGS, 1, 1>>,
      checker_make_packet(CMD_BLOOD_OXYGEN, <<1, 1>>),
      checker_make_packet(CMD_BLOOD_OXYGEN, <<1, 0>>),
      checker_make_packet(CMD_PRESSURE, <<1, 1>>),
      checker_make_packet(CMD_HRV, <<1, 2>>),
      <<CMD_HRV>>,
      checker_make_packet(3, <<80, 0>>),
      <<>> }

CheckerState ==
    [settings        |-> settings,
     response_event  |-> response_event,
     current_command |-> current_command]

\* all four queries handed to write_gatt_char by the first one
BeginQuery_pipelined(k) ==
    /\ current_command' = Some(QueryCommands[k])
    /\ response_event' = FALSE
    /\ chk_query' = k
    /\ chk_written' =
           IF k = 1
           THEN [j \in 1..Len(QueryCommands) |->
                    checker_make_packet(QueryCommands[j], <<1>>)]
           ELSE chk_written
    /\ chk_pc' = "writing"

\* "self.current_command = CMD; self.response_event.clear()" and the call of
\* write_gatt_char with the packet of the query number k, up to the point
\* where the call suspends
BeginQuery(k) ==
    /\ current_command' = Some(QueryCommands[k])
    /\ response_event' = FALSE
    /\ chk_query' = k
    /\ chk_written' =
           Append(chk_written, checker_make_packet(QueryCommands[k], <<1>>))
    /\ chk_pc' = "writing"

\* "await self.client.connect()" of connect (check-intervals.py and
\* modify-intervals.py are two programs: this one runs, the other does not)
ChkConnect ==
    /\ chk_pc = "connect"
    /\ mod_pc = "connect"
    /\ \E ok \in BOOLEAN :
        chk_pc' = IF ok THEN "start_notify" ELSE "connect_failed"
    /\ UNCHANGED <<settings, response_event, current_command, chk_query,
                   chk_written, chk_last_frame, chk_frames>>
    /\ UNCHANGED outsideChecker

\* "await self.client.start_notify(...)" returns; check_settings tests
\* "self.client.is_connected", raises "Ring not connected" or runs up to its
\* first write
ChkStartNotify ==
    /\ chk_pc = "start_notify"
    /\ \E ok \in BOOLEAN, is_connected \in BOOLEAN :
        IF ok /\ is_connected
        THEN BeginQuery(1)
        ELSE /\ chk_pc' = "failed"
             /\ UNCHANGED <<current_command, response_event, chk_query,
                            chk_written>>
    /\ UNCHANGED <<settings, chk_last_frame, chk_frames>>
    /\ UNCHANGED outsideChecker

\* the end of "await self.client.write_gatt_char(UART_RX_CHAR_UUID, make_packet(...))"
ChkWrite ==
    /\ chk_pc = "writing"
    /\ \E ok \in BOOLEAN :
        chk_pc' = IF ok THEN "wait" ELSE "failed"
    /\ UNCHANGED <<settings, response_event, current_command, chk_query,
                   chk_written, chk_last_frame, chk_frames>>
    /\ UNCHANGED outsideChecker

\* the transport hands one frame to notification_handler
ChkNotify ==
    /\ chk_pc \in {"start_notify", "writing", "wait", "expired", "done",
                  "failed"}
    /\ chk_frames < MaxCheckerFrames
    /\ \E data \in CheckerFrames :
        LET st == checker_notification_handler(CheckerState, data)
        IN  /\ settings' = st.settings
            /\ response_event' = st.response_event
            /\ current_command' = st.current_command
            /\ chk_last_frame' = Some(data)
            /\ chk_frames' = chk_frames + 1
    /\ UNCHANGED <<chk_pc, chk_query, chk_written>>
    /\ UNCHANGED outsideChecker

\* wait_for returns because response_event is set: the next query begins, or
\* check_settings returns and the settings are printed
ChkQueryDone ==
    /\ chk_pc = "wait"
    /\ response_event
    /\ IF chk_query < Len(QueryCommands)
       THEN BeginQuery(chk_query + 1)
       ELSE /\ chk_pc' = "done"
            /\ UNCHANGED <<current_command, response_event, chk_query,
                           chk_written>>
    /\ UNCHANGED <<settings, chk_last_frame, chk_frames>>
    /\ UNCHANGED outsideChecker

\* the timer of "asyncio.wait_for(self.response_event.wait(), timeout=2.0)"
\* fires while response_event is clear: the waiter of wait_for is released,
\* and the coroutine runs again a turn of the event loop later
ChkTimerExpires ==
    /\ chk_pc = "wait"
    /\ ~response_event
    /\ chk_pc' = "expired"
    /\ UNCHANGED <<settings, response_event, current_command, chk_query,
                   chk_written, chk_last_frame, chk_frames>>
    /\ UNCHANGED outsideChecker

\* the coroutine runs again after the timer has fired: wait_for raises
\* TimeoutError, also when a frame handled in between has set
\* response_event; main logs it
ChkTimeout ==
    /\ chk_pc = "expired"
    /\ chk_pc' = "failed"
    /\ UNCHANGED <<settings, response_event, current_command, chk_query,
                   chk_written, chk_last_frame, chk_frames>>
    /\ UNCHANGED outsideChecker

\* "finally: await checker.disconnect()"
ChkDisconnect ==
    /\ chk_pc \in {"done", "failed", "connect_failed"}
    /\ chk_pc' = "disconnected"
    /\ UNCHANGED <<settings, response_event, current_command, chk_query,
                   chk_written, chk_last_frame, chk_frames>>
    /\ UNCHANGED outsideChecker

NextChecker ==
    \/ ChkConnect
    \/ ChkStartNotify
    \/ ChkWrite
    \/ ChkNotify
    \/ ChkQueryDone
    \/ ChkTimerExpires
    \/ ChkTimeout
    \/ ChkDisconnect

SpecChecker == Init /\ [][NextChecker]_vars

\* this step hands a frame to the handler of the checker
ChkHandled == chk_frames' = chk_frames + 1

\* the frame handed over in this step begins with the awaited command id
ChkMatches ==
    /\ Len(chk_last_frame'[1]) > 0
    /\ current_command = << chk_last_frame'[1][1] >>

\* this step ends a query successfully
ChkCompletes ==
    /\ chk_pc = "wait"
    /\ chk_pc' \in {"writing", "done"}

\* C19: in RingSettingsChecker a query completes successfully only through a
\* notification frame whose first byte equals the awaited command id: a frame
\* with any other first byte does not set the response event and leaves the
\* settings map unchanged, the event is set by no other step than the
\* handling of a matching frame, and a query completes only with the event
\* set.
C19_OnlyMatchingFrameCompletes ==
    [][/\ (ChkHandled /\ ~ChkMatches) =>
              /\ settings' = settings
              /\ response_event' = response_event
       /\ (response_event' /\ ~response_event) => (ChkHandled /\ ChkMatches)
       /\ ChkCompletes => response_event]_vars

\* the heart-rate query has completed, the blood-oxygen query is waiting, and
\* the frame last handed over, a battery frame, has been discarded
C19_Witness ==
    /\ chk_pc = "wait"
    /\ chk_query = 2
    /\ ~response_event
    /\ DOMAIN settings = {"heart_rate"}
    /\ chk_last_frame # None
    /\ Len(chk_last_frame[1]) > 0
    /\ chk_last_frame[1][1] = 3

(***************************************************************************)
(* battery.py: get_battery_level.                                          *)
(***************************************************************************)
\* frames handed to the handler of one call of get_battery_level
MaxBatteryFrames == 3

CMD_BATTERY == 3

\* the checksum taken modulo 255, as the comment in battery.py words it
battery_make_packet_mod255(command, sub_data) ==
    LET packet == <<command>> \o sub_data \o Zeros(14 - Len(sub_data)) \o <<0>>
    IN  [packet EXCEPT ![16] = SumBytes(packet) % 255]

\* make_packet of battery.py, for sub_data of at most 14 bytes (None is the
\* empty sub_data): the checksum is the sum of the packet, whose last byte is
\* still 0, and 255
battery_make_packet(command, sub_data) ==
    LET packet == <<command>> \o sub_data \o Zeros(14 - Len(sub_data)) \o <<0>>
    IN  [packet EXCEPT ![16] = SumBytes(packet) % 256]

\* only a status byte of 1 read as charging
parse_battery_response_chargingOnlyOne(packet) ==
    IF Len(packet) = 16 /\ packet[1] = CMD_BATTERY
    THEN Some([level |-> packet[2], charging |-> packet[3] = 1])
    ELSE None

\* the length of the frame not asserted: bytes beyond the frame read as 0
parse_battery_response_anyLength(packet) ==
    IF Len(packet) > 0 /\ packet[1] = CMD_BATTERY
    THEN Some([level    |-> IF Len(packet) >= 2 THEN packet[2] ELSE 0,
               charging |-> IF Len(packet) >= 3 THEN packet[3] # 0 ELSE FALSE])
    ELSE None

\* parse_battery_response: Some(BatteryInfo), or None for an AssertionError
parse_battery_response(packet) ==
    IF Len(packet) = 16 /\ packet[1] = CMD_BATTERY
    THEN Some([level |-> packet[2], charging |-> packet[3] # 0])
    ELSE None

\* frames of the device: two battery answers, the answer to a heart-rate
\* settings query, and a battery frame cut short
BatteryFrames ==
    { battery_make_packet(CMD_BATTERY, <<80, 0>>),
      battery_make_packet(CMD_BATTERY, <<15, 1>>),
      battery_make_packet(CMD_HEART_RATE_LOG_SETTINGS, <<1, 1, 30>>),
      <<CMD_BATTERY, 50, 0>> }

\* control leaves the "async with" block by a return, by an exception or at
\* its end: BleakClient.__aexit__ awaits client.disconnect(), and the
\* coroutine is parked there with the subscription as it was
BatReturn(kind) ==
    /\ bat_pc' = "disconnect"
    /\ bat_outcome' = kind

\* lookup of the service and of the RX characteristic, up to the call of
\* start_notify or to the "return" of a failed lookup
BatLookup(found) ==
    IF found = "all"
    THEN /\ bat_pc' = "start_notify"
         /\ UNCHANGED bat_outcome
    ELSE BatReturn(found)

\* "async with BleakClient(device) as client": the connect of __aenter__
\* returns and the lookups run, or it raises, the block is not entered and
\* "except Exception" prints the error
BatConnect ==
    /\ bat_pc = "connect"
    /\ \E ok \in BOOLEAN :
        IF ok
        THEN \E found \in {"all", "no_service", "no_rx_char"} :
                BatLookup(found)
        ELSE /\ bat_pc' = "returned"
             /\ bat_outcome' = "connect_error"
    /\ UNCHANGED <<response_queue, bat_put_tasks, response, battery_info,
                   bat_subscribed, bat_written, bat_frames,
                   bat_stop_notify_calls>>
    /\ UNCHANGED outsideBattery

\* the request written without the handler having been subscribed
BatStartNotify_notSubscribed ==
    /\ bat_pc = "start_notify"
    /\ \E ok \in BOOLEAN :
        IF ok
        THEN /\ bat_pc' = "write"
             /\ UNCHANGED <<bat_outcome, bat_subscribed>>
        ELSE /\ BatReturn("start_notify_error")
             /\ UNCHANGED bat_subscribed
    /\ UNCHANGED <<response_queue, bat_put_tasks, response, battery_info,
                   bat_written, bat_frames, bat_stop_notify_calls>>
    /\ UNCHANGED outsideBattery

\* "await client.start_notify(UART_TX_CHAR_UUID, notification_handler)"
\* returns, and write_gatt_char is called with the request
BatStartNotify ==
    /\ bat_pc = "start_notify"
    /\ \E ok \in BOOLEAN :
        IF ok
        THEN /\ bat_subscribed' = TRUE
             /\ bat_pc' = "write"
             /\ UNCHANGED bat_outcome
        ELSE /\ BatReturn("start_notify_error")
             /\ UNCHANGED bat_subscribed
    /\ UNCHANGED <<response_queue, bat_put_tasks, response, battery_info,
                   bat_written, bat_frames, bat_stop_notify_calls>>
    /\ UNCHANGED outsideBattery

\* "await client.write_gatt_char(rx_char, make_packet(CMD_BATTERY), ...)"
\* returns, and the wait for the response begins
BatWrite ==
    /\ bat_pc = "write"
    /\ \E ok \in BOOLEAN :
        IF ok
        THEN /\ bat_written' =
                    Append(bat_written, battery_make_packet(CMD_BATTERY, <<>>))
             /\ bat_pc' = "wait"
             /\ UNCHANGED bat_outcome
        ELSE /\ BatReturn("write_error")
             /\ UNCHANGED bat_written
    /\ UNCHANGED <<response_queue, bat_put_tasks, response, battery_info,
                   bat_subscribed, bat_frames, bat_stop_notify_calls>>
    /\ UNCHANGED outsideBattery

\* notification_handler: "asyncio.create_task(response_queue.put(data))"
\* creates the task of the put and returns; the queue is not touched yet.
\* The transport calls the handler from the moment start_notify is pending
\* until the subscription is released, whichever await the coroutine is
\* parked in: the pending disconnect of an exit that skipped stop_notify
\* included
BatNotify ==
    /\ \/ bat_pc = "start_notify"
       \/ /\ bat_subscribed
          /\ bat_pc \in {"write", "wait", "expired", "cancelling",
                        "cancelling_early",
                         "stop_notify", "disconnect"}
    /\ bat_frames < MaxBatteryFrames
    /\ \E data \in BatteryFrames :
        bat_put_tasks' = Append(bat_put_tasks, data)
    /\ bat_frames' = bat_frames + 1
    /\ UNCHANGED <<response_queue, response, battery_info, bat_pc,
                   bat_outcome, bat_subscribed, bat_written,
                   bat_stop_notify_calls>>
    /\ UNCHANGED outsideBattery

\* the oldest task created by the handler runs: "response_queue.put(data)"
\* puts the frame on the unbounded queue, wherever get_battery_level stands
BatPut ==
    /\ bat_put_tasks # <<>>
    /\ response_queue' = Append(response_queue, Head(bat_put_tasks))
    /\ bat_put_tasks' = Tail(bat_put_tasks)
    /\ UNCHANGED <<response, battery_info, bat_pc, bat_outcome,
                   bat_subscribed, bat_written, bat_frames,
                   bat_stop_notify_calls>>
    /\ UNCHANGED outsideBattery

\* "response = await asyncio.wait_for(response_queue.get(), timeout=5.0);
\*  battery_info = parse_battery_response(response)": the AssertionError of
\* parse_battery_response is caught by the outer "except Exception".  After
\* a cancellation requested before the first step of the task of
\* response_queue.get() (bat_pc cancelling_early), that step takes a frame
\* put since, the task is done when the coroutine runs again, and wait_for
\* returns the frame: the CancelledError is dropped
BatTakeResponse ==
    /\ bat_pc \in {"wait", "cancelling_early"}
    /\ response_queue # <<>>
    /\ response' = Some(Head(response_queue))
    /\ response_queue' = Tail(response_queue)
    /\ LET info == parse_battery_response(Head(response_queue))
       IN  IF info # None
           THEN /\ battery_info' = info
                /\ bat_pc' = "stop_notify"
                /\ bat_outcome' = "reported"
           ELSE /\ BatReturn("parse_error")
                /\ UNCHANGED battery_info
    /\ UNCHANGED <<bat_put_tasks, bat_subscribed, bat_written, bat_frames,
                   bat_stop_notify_calls>>
    /\ UNCHANGED outsideBattery

\* the timer of wait_for fires while the queue is empty: the waiter of
\* wait_for is released, and the coroutine runs again a turn of the event
\* loop later
BatTimerExpires ==
    /\ bat_pc = "wait"
    /\ response_queue = <<>>
    /\ bat_pc' = "expired"
    /\ UNCHANGED <<response_queue, bat_put_tasks, response, battery_info,
                   bat_outcome, bat_subscribed, bat_written, bat_frames,
                   bat_stop_notify_calls>>
    /\ UNCHANGED outsideBattery

\* the coroutine runs again after the timer has fired: wait_for raises
\* TimeoutError, a frame queued in between stays in the queue, and
\* "except asyncio.TimeoutError: print(...)" goes on to stop_notify
BatTimeout ==
    /\ bat_pc = "expired"
    /\ bat_pc' = "stop_notify"
    /\ bat_outcome' = "timeout"
    /\ UNCHANGED <<response_queue, bat_put_tasks, response, battery_info,
                   bat_subscribed, bat_written, bat_frames,
                   bat_stop_notify_calls>>
    /\ UNCHANGED outsideBattery

\* "await client.stop_notify(UART_TX_CHAR_UUID)" returns and the block ends,
\* or it raises and the subscription is not known to be released; either
\* way the block is left
BatStopNotify ==
    /\ bat_pc = "stop_notify"
    /\ bat_stop_notify_calls' = bat_stop_notify_calls + 1
    /\ bat_pc' = "disconnect"
    /\ \E ok \in BOOLEAN :
        IF ok
        THEN /\ bat_subscribed' = FALSE
             /\ UNCHANGED bat_outcome
        ELSE /\ bat_outcome' = "stop_notify_error"
             /\ UNCHANGED bat_subscribed
    /\ UNCHANGED <<response_queue, bat_put_tasks, response, battery_info,
                   bat_written, bat_frames>>
    /\ UNCHANGED outsideBattery

\* task.cancel() is called while the coroutine is parked in the wait with
\* the queue empty: the waiter of wait_for is cancelled, and the coroutine
\* runs again a turn of the event loop later.  The task of
\* response_queue.get() that wait_for created is either parked on the queue
\* by then (bat_pc cancelling) or has not had its first step yet (bat_pc
\* cancelling_early), which the event loop decides.  (Called with a frame in
\* the queue, the cancellation is dropped by the wait_for of this Python,
\* which returns the frame: that run is BatTakeResponse.)
BatCancelRequested ==
    /\ bat_pc = "wait"
    /\ response_queue = <<>>
    /\ bat_pc' \in {"cancelling", "cancelling_early"}
    /\ UNCHANGED <<response_queue, bat_put_tasks, response, battery_info,
                   bat_outcome, bat_subscribed, bat_written, bat_frames,
                   bat_stop_notify_calls>>
    /\ UNCHANGED outsideBattery

\* after a cancellation requested before its first step, the task of
\* response_queue.get() runs that step with the queue empty and parks on the
\* queue
BatGetParks ==
    /\ bat_pc = "cancelling_early"
    /\ response_queue = <<>>
    /\ bat_pc' = "cancelling"
    /\ UNCHANGED <<response_queue, bat_put_tasks, response, battery_info,
                   bat_outcome, bat_subscribed, bat_written, bat_frames,
                   bat_stop_notify_calls>>
    /\ UNCHANGED outsideBattery

\* the CancelledError is raised in the coroutine, and "except Exception"
\* does not catch it.  In the connect of __aenter__ the block is not
\* entered; in an await of the block (in the wait: after the cancellation
\* was requested there or after the timer has fired) the block is left
\* through the disconnect, and a stop_notify that was called and cancelled
\* counts as called, the subscription not known to be released; in the
\* disconnect of __aexit__ the function ends.  With the task of
\* response_queue.get() parked on the queue when the cancellation was
\* requested (bat_pc cancelling), a frame put since then stays in the queue;
\* with that task not yet run (bat_pc cancelling_early), the CancelledError
\* is raised when the queue is still empty at the first step of the task
BatCancel ==
    /\ \/ bat_pc \in {"connect", "start_notify", "write", "expired",
                     "cancelling", "stop_notify", "disconnect"}
       \/ bat_pc = "cancelling_early" /\ response_queue = <<>>
    /\ bat_outcome' = "cancelled"
    /\ bat_pc' = IF bat_pc \in {"connect", "disconnect"}
                 THEN "returned" ELSE "disconnect"
    /\ bat_subscribed' = IF bat_pc = "disconnect" THEN FALSE
                         ELSE bat_subscribed
    /\ bat_stop_notify_calls' =
           IF bat_pc = "stop_notify" THEN bat_stop_notify_calls + 1
           ELSE bat_stop_notify_calls
    /\ UNCHANGED <<response_queue, bat_put_tasks, response, battery_info,
                   bat_written, bat_frames>>
    /\ UNCHANGED outsideBattery

\* the disconnect of __aexit__ returns, or raises into "except Exception";
\* the connection is gone and no frame is delivered any more
BatDisconnect ==
    /\ bat_pc = "disconnect"
    /\ bat_pc' = "returned"
    /\ bat_subscribed' = FALSE
    /\ \E ok \in BOOLEAN :
        bat_outcome' = IF ok THEN bat_outcome ELSE "disconnect_error"
    /\ UNCHANGED <<response_queue, bat_put_tasks, response, battery_info,
                   bat_written, bat_frames, bat_stop_notify_calls>>
    /\ UNCHANGED outsideBattery

NextBattery ==
    \/ BatConnect
    \/ BatStartNotify
    \/ BatWrite
    \/ BatNotify
    \/ BatPut
    \/ BatTakeResponse
    \/ BatTimerExpires
    \/ BatTimeout
    \/ BatStopNotify
    \/ BatCancelRequested
    \/ BatGetParks
    \/ BatCancel
    \/ BatDisconnect

SpecBattery == Init /\ [][NextBattery]_vars

\* C20: in get_battery_level a notification frame whose first byte is not the
\* battery command id 3 is discarded and does not end the wait: the frame that
\* ends the wait begins with 3 (the other way out of the wait is the timeout).
C20_OnlyBatteryFrameEndsWait ==
    response # None =>
        /\ Len(response[1]) > 0
        /\ response[1][1] = 3

(***************************************************************************)
(* modify-intervals.py: make_packet and RingSettingsModifier.              *)
(***************************************************************************)
\* frames handed to the handler of one RingSettingsModifier
MaxModifierFrames == 3

\* make_packet without its assert: a longer sub_data is cut to 14 bytes
make_packet_truncates(command, sub_data) ==
    Some(checker_make_packet(command,
             SubSeq(sub_data, 1, IF Len(sub_data) > 14 THEN 14
                                 ELSE Len(sub_data))))

\* make_packet of modify-intervals.py, check-intervals.py and set-time.py
\* (the same text in the three files): Some(packet), or None for the
\* AssertionError of "assert len(sub_data) <= 14"
make_packet(command, sub_data) ==
    IF Len(sub_data) > 14 THEN None
    ELSE Some(checker_make_packet(command, sub_data))

\* RingSettingsModifier.notification_handler: statement for statement the
\* handler of RingSettingsChecker
modifier_notification_handler(st, data) ==
    checker_notification_handler(st, data)

\* the key of self.settings for a command id
SettingsKey(command) ==
    IF command = CMD_HEART_RATE_LOG_SETTINGS THEN "heart_rate"
    ELSE IF command = CMD_BLOOD_OXYGEN THEN "blood_oxygen"
    ELSE IF command = CMD_PRESSURE THEN "pressure"
    ELSE "hrv"

\* frames of the device: answers to the four queries, the answer to a write
\* that disables HRV, a battery frame and a frame cut short
ModifierFrames ==
    { checker_make_packet(CMD_HEART_RATE_LOG_SETTINGS, <<1, 1, 30>>),
      checker_make_packet(CMD_BLOOD_OXYGEN, <<1, 1>>),
      checker_make_packet(CMD_PRESSURE, <<1, 1>>),
      checker_make_packet(CMD_HRV, <<1, 1>>),
      checker_make_packet(CMD_HRV, <<2, 2>>),
      checker_make_packet(3, <<80, 0>>),
      <<CMD_BLOOD_OXYGEN>> }

\* numbers the user types at "Enter measurement interval in minutes (5-255)"
IntervalInputs == {4, 5, 60, 255, 256}

\* the interval typed by the user taken without the test of its range
ModifyChoices_unchecked(k) ==
    IF k = 1
    THEN { <<2, 1, interval>> : interval \in IntervalInputs } \cup { <<2, 2, 60>> }
    ELSE { <<2, 1>>, <<2, 2>> }

\* the sub_data the user's answers give to the modify write number k:
\* [2, enabled_byte, interval] for the heart rate, where the prompt for the
\* interval is repeated until "5 <= interval <= 255" and the interval stays
\* 60 when the user does not enable; [2, 1 or 2] for the other sensors
ModifyChoices(k) ==
    IF k = 1
    THEN { <<2, 1, interval>> :
             interval \in {i \in IntervalInputs : 5 <= i /\ i <= 255} }
         \cup { <<2, 2, 60>> }
    ELSE { <<2, 1>>, <<2, 2>> }

ModifierState ==
    [settings        |-> mod_settings,
     response_event  |-> mod_response_event,
     current_command |-> mod_current_command]

\* "self.current_command = cmd; self.response_event.clear()" and the call of
\* write_gatt_char with the packet of the query number k
ModBeginQuery(k) ==
    /\ mod_current_command' = Some(QueryCommands[k])
    /\ mod_response_event' = FALSE
    /\ mod_query' = k
    /\ mod_written' =
           Append(mod_written, make_packet(QueryCommands[k], <<1>>)[1])
    /\ mod_pc' = "writing"

\* modify_heart_rate_settings (k = 1) and modify_sensor_setting (k = 2..4):
\* the answers of the user, read with the blocking input(), and the call of
\* write_gatt_char
ModBeginModify(k) ==
    /\ \E sub_data \in ModifyChoices(k) :
        mod_written' =
            Append(mod_written, make_packet(QueryCommands[k], sub_data)[1])
    /\ mod_query' = k
    /\ mod_pc' = "modify_writing"
    /\ UNCHANGED <<mod_current_command, mod_response_event>>

\* what follows the wait of a query: the next query, after the last query of
\* the first get_current_settings the first modify write, and after the last
\* query of the second one print_current_settings
ModAfterQuery ==
    IF mod_query < Len(QueryCommands)
    THEN /\ ModBeginQuery(mod_query + 1)
         /\ UNCHANGED <<mod_round, mod_report>>
    ELSE IF mod_round = 1
    THEN /\ ModBeginModify(1)
         /\ UNCHANGED <<mod_round, mod_report>>
    ELSE /\ mod_pc' = "done"
         /\ mod_report' = Some(mod_settings)
         /\ UNCHANGED <<mod_current_command, mod_response_event, mod_query,
                        mod_written, mod_round>>

\* "await self.client.connect()" of connect
ModConnect ==
    /\ mod_pc = "connect"
    /\ chk_pc = "connect"
    /\ \E ok \in BOOLEAN :
        mod_pc' = IF ok THEN "start_notify" ELSE "connect_failed"
    /\ UNCHANGED <<mod_settings, mod_response_event, mod_current_command,
                   mod_round, mod_query, mod_written, mod_last_frame,
                   mod_frames, mod_unanswered, mod_report>>
    /\ UNCHANGED outsideModifier

\* "await self.client.start_notify(...)" returns; modify_all_settings calls
\* get_current_settings, which tests "self.client.is_connected", raises
\* "Ring not connected" or runs up to its first write
ModStartNotify ==
    /\ mod_pc = "start_notify"
    /\ \E ok \in BOOLEAN, is_connected \in BOOLEAN :
        IF ok /\ is_connected
        THEN ModBeginQuery(1)
        ELSE /\ mod_pc' = "failed"
             /\ UNCHANGED <<mod_current_command, mod_response_event,
                            mod_query, mod_written>>
    /\ UNCHANGED <<mod_settings, mod_round, mod_last_frame, mod_frames,
                   mod_unanswered, mod_report>>
    /\ UNCHANGED outsideModifier

\* the end of "await self.client.write_gatt_char(...)" of a query; an
\* exception is logged and raised up to main
ModWrite ==
    /\ mod_pc = "writing"
    /\ \E ok \in BOOLEAN :
        mod_pc' = IF ok THEN "wait" ELSE "failed"
    /\ UNCHANGED <<mod_settings, mod_response_event, mod_current_command,
                   mod_round, mod_query, mod_written, mod_last_frame,
                   mod_frames, mod_unanswered, mod_report>>
    /\ UNCHANGED outsideModifier

\* the transport hands one frame to notification_handler
ModNotify ==
    /\ mod_pc \in {"start_notify", "writing", "wait", "expired",
                  "modify_writing",
                   "modify_sleep", "done", "failed"}
    /\ mod_frames < MaxModifierFrames
    /\ \E data \in ModifierFrames :
        LET st == modifier_notification_handler(ModifierState, data)
        IN  /\ mod_settings' = st.settings
            /\ mod_response_event' = st.response_event
            /\ mod_current_command' = st.current_command
            /\ mod_last_frame' = Some(data)
            /\ mod_frames' = mod_frames + 1
    /\ UNCHANGED <<mod_pc, mod_round, mod_query, mod_written, mod_unanswered,
                   mod_report>>
    /\ UNCHANGED outsideModifier

\* wait_for returns because response_event is set
ModQueryDone ==
    /\ mod_pc = "wait"
    /\ mod_response_event
    /\ ModAfterQuery
    /\ UNCHANGED <<mod_settings, mod_last_frame, mod_frames, mod_unanswered>>
    /\ UNCHANGED outsideModifier

\* the timer of "asyncio.wait_for(self.response_event.wait(), timeout=2.0)"
\* fires while response_event is clear: the waiter of wait_for is released,
\* and the coroutine runs again a turn of the event loop later
ModTimerExpires ==
    /\ mod_pc = "wait"
    /\ ~mod_response_event
    /\ mod_pc' = "expired"
    /\ UNCHANGED <<mod_settings, mod_response_event, mod_current_command,
                   mod_round, mod_query, mod_written, mod_last_frame,
                   mod_frames, mod_unanswered, mod_report>>
    /\ UNCHANGED outsideModifier

\* the coroutine runs again after the timer has fired: wait_for raises
\* TimeoutError, also when a frame handled in between has set
\* response_event.  For the heart-rate query it is logged and raised up to
\* main; in the loop over the other sensors it is caught, a warning is
\* logged and the loop goes on
ModTimeout ==
    /\ mod_pc = "expired"
    /\ IF mod_query = 1
       THEN /\ mod_pc' = "failed"
            /\ UNCHANGED <<mod_current_command, mod_response_event, mod_query,
                           mod_written, mod_round, mod_report>>
       ELSE ModAfterQuery
    /\ mod_unanswered' =
           mod_unanswered \cup {SettingsKey(QueryCommands[mod_query])}
    /\ UNCHANGED <<mod_settings, mod_last_frame, mod_frames>>
    /\ UNCHANGED outsideModifier

\* the end of "await self.client.write_gatt_char(...)" of a modify write
ModModifyWritten ==
    /\ mod_pc = "modify_writing"
    /\ \E ok \in BOOLEAN :
        mod_pc' = IF ok THEN "modify_sleep" ELSE "failed"
    /\ UNCHANGED <<mod_settings, mod_response_event, mod_current_command,
                   mod_round, mod_query, mod_written, mod_last_frame,
                   mod_frames, mod_unanswered, mod_report>>
    /\ UNCHANGED outsideModifier

\* "await asyncio.sleep(1)" is over: the next modify write, or the second
\* get_current_settings, which tests "self.client.is_connected" and raises
\* "Ring not connected" up to main, or runs up to its first write
ModSleepDone ==
    /\ mod_pc = "modify_sleep"
    /\ IF mod_query < Len(QueryCommands)
       THEN /\ ModBeginModify(mod_query + 1)
            /\ UNCHANGED <<mod_round, mod_unanswered>>
       ELSE /\ mod_round' = 2
            /\ mod_unanswered' = {}
            /\ \E is_connected \in BOOLEAN :
                 IF is_connected
                 THEN ModBeginQuery(1)
                 ELSE /\ mod_pc' = "failed"
                      /\ UNCHANGED <<mod_current_command, mod_response_event,
                                     mod_query, mod_written>>
    /\ UNCHANGED <<mod_settings, mod_last_frame, mod_frames, mod_report>>
    /\ UNCHANGED outsideModifier

\* "finally: await modifier.disconnect()"
ModDisconnect ==
    /\ mod_pc \in {"done", "failed", "connect_failed"}
    /\ mod_pc' = "disconnected"
    /\ UNCHANGED <<mod_settings, mod_response_event, mod_current_command,
                   mod_round, mod_query, mod_written, mod_last_frame,
                   mod_frames, mod_unanswered, mod_report>>
    /\ UNCHANGED outsideModifier

NextModifier ==
    \/ ModConnect
    \/ ModStartNotify
    \/ ModWrite
    \/ ModNotify
    \/ ModQueryDone
    \/ ModTimerExpires
    \/ ModTimeout
    \/ ModModifyWritten
    \/ ModSleepDone
    \/ ModDisconnect

\* one of the two settings scripts runs
NextSettings ==
    \/ NextChecker
    \/ NextModifier

SpecSettings == Init /\ [][NextSettings]_vars

\* this step hands a frame to the handler of the modifier
ModHandled == mod_frames' = mod_frames + 1

\* no query of the checker / of the modifier is outstanding: none has been
\* written yet, or the last one has ended by its response or by a timeout
ChkIdle == chk_pc \notin {"writing", "wait", "expired"}

ModIdle == mod_pc \notin {"writing", "wait", "expired"}

\* C21: after a settings request has ended, by response or by timeout, the
\* channel is idle: a frame arriving while no query is outstanding (a late
\* reply to a timed-out query, a duplicate reply, the device's reply to a
\* modify write) changes neither the settings map nor the response event.
C21_IdleChannelDiscards ==
    [][/\ (ModHandled /\ ModIdle) =>
              /\ mod_settings' = mod_settings
              /\ mod_response_event' = mod_response_event
       /\ (ChkHandled /\ ChkIdle) =>
              /\ settings' = settings
              /\ response_event' = response_event]_vars

\* C22: a settings query that receives no matching frame within its timeout
\* fails with a timeout error that reaches the caller, for each of the four
\* sensors: check_settings and get_current_settings never return normally
\* after one of their queries timed out, so the settings are never reported
\* with a sensor whose query got no answer.
C22_TimeoutReachesCaller ==
    /\ chk_pc = "done" =>
           DOMAIN settings = {"heart_rate", "blood_oxygen", "pressure", "hrv"}
    /\ mod_pc = "done" => mod_unanswered = {}

\* this step hands a packet to write_gatt_char
ChkWrites == Len(chk_written') > Len(chk_written)

ModWrites == Len(mod_written') > Len(mod_written)

\* the packet is a query: its byte 1 is the sub_data b"\x01"
IsQueryPacket(packet) == packet[2] = 1

\* C23: at most one settings request is outstanding at any time: the packet
\* of the next query is written only after the wait for the previous query
\* has ended (one packet per step, none while the previous write or wait is
\* still going on), and whenever a query packet is written the awaited
\* command id equals that packet's command id and the response event is
\* clear.
C23_OneOutstandingQuery ==
    [][/\ ChkWrites =>
              LET packet == chk_written'[Len(chk_written')]
              IN  /\ Len(chk_written') = Len(chk_written) + 1
                  /\ chk_pc # "writing"
                  /\ chk_pc = "wait" => response_event
                  /\ current_command' = <<packet[1]>>
                  /\ ~response_event'
       /\ (ModWrites /\ IsQueryPacket(mod_written'[Len(mod_written')])) =>
              LET packet == mod_written'[Len(mod_written')]
              IN  /\ Len(mod_written') = Len(mod_written) + 1
                  /\ mod_pc \notin {"writing", "modify_writing"}
                  /\ mod_pc = "wait" => mod_response_event
                  /\ mod_current_command' = <<packet[1]>>
                  /\ ~mod_response_event']_vars

\* the modifier has written its pressure query after the wait for the
\* blood-oxygen answer ended by a timeout
C23_Witness ==
    /\ mod_pc = "writing"
    /\ mod_round = 1
    /\ mod_query = 3
    /\ Len(mod_written) = 3
    /\ mod_written[3][1] = 54
    /\ "blood_oxygen" \in mod_unanswered

(***************************************************************************)
(* Properties of get_battery_level and of the packet functions.            *)
(***************************************************************************)
\* C24: get_battery_level releases its notification subscription with
\* stop_notify on every exit path after start_notify succeeded: response
\* received and parsed, timeout, a response that fails parsing, and a failure
\* of the request write.
C24_BatteryStopNotifyOnEveryExit ==
    (/\ bat_pc = "returned"
     /\ bat_outcome \in {"reported", "timeout", "parse_error", "write_error"})
        => bat_stop_notify_calls = 1

\* sub_data of 0 to 16 bytes: counting up from 1, or all 0xFF
PayloadSamples ==
    { [k \in 1..n |-> k] : n \in 0..16 } \cup
    { [k \in 1..n |-> 255] : n \in 1..16 }

\* make_packet of the settings scripts and make_packet of battery.py, for
\* every command byte
MakePacketCalls ==
    { [fn |-> "make_packet", file |-> file, command |-> command,
       sub_data |-> sub_data] :
        file \in {"modify-intervals.py", "battery.py"},
        command \in 0..255, sub_data \in PayloadSamples }

\* make_packet(CMD_BATTERY, sub_data) handed to parse_battery_response
BuildParseCalls ==
    { [fn |-> "build_parse", sub_data |-> sub_data] :
        sub_data \in {p \in PayloadSamples : Len(p) <= 14} }

\* frames for parse_battery_response: built packets, the same with the
\* checksum off by one, with another command id, and frames of 0 to 17 bytes
ResponseSamples ==
    { battery_make_packet(command, sub_data) :
        command \in {0, CMD_BATTERY, CMD_HEART_RATE_LOG_SETTINGS, 255},
        sub_data \in {<<>>, <<80, 0>>, <<15, 1>>, <<100, 2>>} } \cup
    { [battery_make_packet(CMD_BATTERY, sub_data) EXCEPT ![16] = (@ + 1) % 256] :
        sub_data \in {<<80, 0>>, <<15, 1>>} } \cup
    { [k \in 1..n |-> IF k = 1 THEN CMD_BATTERY ELSE k] : n \in 0..17 }

ParseResponseCalls ==
    { [fn |-> "parse_battery_response", packet |-> packet] :
        packet \in ResponseSamples }

\* make_packet of battery.py with its assert on the length of sub_data: None
\* for the AssertionError
BatteryMakePacketCall(command, sub_data) ==
    IF Len(sub_data) > 14 THEN None
    ELSE Some(battery_make_packet(command, sub_data))

\* "packet = make_packet(command, sub_data)"
CallMakePacket ==
    /\ call_args # None
    /\ call_result = None
    /\ call_args[1].fn = "make_packet"
    /\ call_result' =
           Some(IF call_args[1].file = "battery.py"
                THEN BatteryMakePacketCall(call_args[1].command,
                                           call_args[1].sub_data)
                ELSE make_packet(call_args[1].command, call_args[1].sub_data))
    /\ UNCHANGED <<call_args, outsideCalls>>

\* "parse_battery_response(make_packet(CMD_BATTERY, sub_data))"
CallBuildParse ==
    /\ call_args # None
    /\ call_result = None
    /\ call_args[1].fn = "build_parse"
    /\ LET packet == battery_make_packet(CMD_BATTERY, call_args[1].sub_data)
       IN  call_result' = Some([packet |-> packet,
                                info   |-> parse_battery_response(packet)])
    /\ UNCHANGED <<call_args, outsideCalls>>

\* "battery_info = parse_battery_response(response)"
CallParseBatteryResponse ==
    /\ call_args # None
    /\ call_result = None
    /\ call_args[1].fn = "parse_battery_response"
    /\ call_result' = Some(parse_battery_response(call_args[1].packet))
    /\ UNCHANGED <<call_args, outsideCalls>>

\* ---------------------------------------------------------------------------
\* set-time.py
\* ---------------------------------------------------------------------------

CMD_SET_TIME == 1

\* the value written as it is, not as two decimal digits
BcdByte_plain(x) == x

\* "(x // 10 << 4) | (x % 10)": the low four bits of the shifted tens digit
\* are 0, so the bitwise or is a sum
BcdByte(x) == ((x \div 10) * 16) + (x % 10)

\* create_time_packet: target_time is the record of the datetime's fields
create_time_packet(target_time) ==
    make_packet(CMD_SET_TIME,
                << BcdByte(target_time.year - 2000),
                   BcdByte(target_time.month),
                   BcdByte(target_time.day),
                   BcdByte(target_time.hour),
                   BcdByte(target_time.minute),
                   BcdByte(target_time.second),
                   1 >>)

\* datetimes of the years 2000 to 2099 with one-digit and two-digit fields
TimeSamples ==
    [ year   : {2000, 2009, 2010, 2024, 2099},
      month  : {1, 9, 10, 12},
      day    : {1, 9, 10, 28},
      hour   : {0, 9, 19, 23},
      minute : {0, 59},
      second : {0, 9, 45} ]

TimePacketCalls ==
    { [fn |-> "create_time_packet", target_time |-> t] : t \in TimeSamples }

\* "packet = create_time_packet(current_time)"
CallCreateTimePacket ==
    /\ call_args # None
    /\ call_result = None
    /\ call_args[1].fn = "create_time_packet"
    /\ call_result' = Some(create_time_packet(call_args[1].target_time))
    /\ UNCHANGED <<call_args, outsideCalls>>

\* "local_time = datetime.now()" of the runs of main: October 2024
TimeNowSamples == {t \in TimeSamples : t.year = 2024 /\ t.month = 10}

\* "async with BleakClient(device, timeout=20.0) as client": the connection
\* is made, or the exception is logged by main
TimeConnect ==
    /\ time_pc = "connect"
    /\ \E ok \in BOOLEAN :
        IF ok
        THEN /\ time_pc' = "connected"
             /\ UNCHANGED time_outcome
        ELSE /\ time_pc' = "returned"
             /\ time_outcome' = "connect_error"
    /\ UNCHANGED <<time_target, time_written, time_reported>>
    /\ UNCHANGED outsideTime

\* set_ring_time from its first statement to the call of write_gatt_char.
\* With the UART service or the RX characteristic missing it logs an error
\* and returns, and main prints "Time set successfully"
TimeSetRingTime ==
    /\ time_pc = "connected"
    /\ \E target_time \in TimeNowSamples, uart_service, rx_char \in BOOLEAN :
        /\ time_target' = Some(target_time)
        /\ IF ~uart_service \/ ~rx_char
           THEN /\ time_outcome' =
                       IF ~uart_service THEN "no_service" ELSE "no_characteristic"
                /\ time_reported' = TRUE
                /\ time_pc' = "disconnect"
                /\ UNCHANGED time_written
           ELSE /\ time_written' =
                       Append(time_written, create_time_packet(target_time)[1])
                /\ time_pc' = "writing"
                /\ UNCHANGED <<time_outcome, time_reported>>
    /\ UNCHANGED outsideTime

\* the end of "await client.write_gatt_char(rx_char, time_packet,
\* response=False)": an exception is caught by "except Exception as e" of
\* set_ring_time and logged, set_ring_time returns and main prints "Time set
\* successfully"
TimeWritten ==
    /\ time_pc = "writing"
    /\ \E ok \in BOOLEAN :
        IF ok
        THEN /\ time_pc' = "sleep"
             /\ UNCHANGED <<time_outcome, time_reported>>
        ELSE /\ time_outcome' = "write_error"
             /\ time_reported' = TRUE
             /\ time_pc' = "disconnect"
    /\ UNCHANGED <<time_target, time_written>>
    /\ UNCHANGED outsideTime

\* "await asyncio.sleep(1)" is over: set_ring_time returns and main prints
\* "Time set successfully"
TimeSleepDone ==
    /\ time_pc = "sleep"
    /\ time_outcome' = "time_set"
    /\ time_reported' = TRUE
    /\ time_pc' = "disconnect"
    /\ UNCHANGED <<time_target, time_written>>
    /\ UNCHANGED outsideTime

\* the end of the "async with" block
TimeDisconnect ==
    /\ time_pc = "disconnect"
    /\ time_pc' = "returned"
    /\ UNCHANGED <<time_target, time_written, time_outcome, time_reported>>
    /\ UNCHANGED outsideTime

NextTime ==
    \/ TimeConnect
    \/ TimeSetRingTime
    \/ TimeWritten
    \/ TimeSleepDone
    \/ TimeDisconnect

SpecTime == Init /\ [][NextTime]_vars

\* ---------------------------------------------------------------------------
\* make_packet of live-hr.py and of spo2.py
\* ---------------------------------------------------------------------------

\* R02RingClient.make_packet, for sub_data of at most 14 bytes: "sum(packet)
\* & 255" over the 16 bytes, the last of which is still 0
live_hr_make_packet(command, sub_data) ==
    LET packet == <<command>> \o sub_data \o Zeros(14 - Len(sub_data)) \o <<0>>
    IN  [packet EXCEPT ![16] = SumBytes(packet) % 256]

\* make_packet of spo2.py, for sub_data of at most 14 bytes:
\* "sum(packet[:-1]) & 0xFF"
spo2_make_packet(command, sub_data) ==
    LET packet == <<command>> \o sub_data \o Zeros(14 - Len(sub_data)) \o <<0>>
    IN  [packet EXCEPT ![16] = SumBytes(SubSeq(packet, 1, 15)) % 256]

\* one command and one sub_data of at most 14 bytes for every make_packet
VariantCalls ==
    { [fn |-> "make_packet_variants", command |-> command,
       sub_data |-> sub_data] :
        command \in 0..255, sub_data \in {p \in PayloadSamples : Len(p) <= 14} }

\* the same arguments given to make_packet of each file
CallMakePacketVariants ==
    /\ call_args # None
    /\ call_result = None
    /\ call_args[1].fn = "make_packet_variants"
    /\ LET command  == call_args[1].command
           sub_data == call_args[1].sub_data
       IN  call_result' =
               Some([battery   |-> battery_make_packet(command, sub_data),
                     live_hr   |-> live_hr_make_packet(command, sub_data),
                     spo2      |-> spo2_make_packet(command, sub_data),
                     intervals |-> make_packet(command, sub_data)[1]])
    /\ UNCHANGED <<call_args, outsideCalls>>

\* ---------------------------------------------------------------------------
\* R02RingClient of live-hr.py: the task start_heart_rate_monitoring
\* ---------------------------------------------------------------------------

MaxHeartFrames == 3

MaxIterations == 3

CMD_START_HEART_RATE == 105

CMD_REAL_TIME_HEART_RATE == 30

CMD_STOP_HEART_RATE == 106

\* R02RingClient._handle_heart_rate_data: the queue after the call
handle_heart_rate_data(queue, data) ==
    IF Len(data) = 16 /\ data[1] = CMD_START_HEART_RATE
    THEN LET error_code == data[3]
             hr_value   == data[4]
         IN  IF error_code = 0 /\ hr_value # 0
             THEN Append(queue, hr_value)
             ELSE queue
    ELSE queue

\* frames of the device: two readings, a reading of 0, a frame with an error
\* code, a frame of the continue command, and readings of 15 and 17 bytes
HeartFrames ==
    { live_hr_make_packet(CMD_START_HEART_RATE, <<1, 0, 72>>),
      live_hr_make_packet(CMD_START_HEART_RATE, <<1, 0, 255>>),
      live_hr_make_packet(CMD_START_HEART_RATE, <<1, 0, 0>>),
      live_hr_make_packet(CMD_START_HEART_RATE, <<1, 1, 72>>),
      live_hr_make_packet(CMD_REAL_TIME_HEART_RATE, <<1, 0, 72>>),
      SubSeq(live_hr_make_packet(CMD_START_HEART_RATE, <<1, 0, 72>>), 1, 15),
      live_hr_make_packet(CMD_START_HEART_RATE, <<1, 0, 72>>) \o <<0>> }

\* "except asyncio.CancelledError": the stop packet is built and handed to
\* write_gatt_char
HrBeginStop ==
    /\ hr_written' =
           Append(hr_written,
                  live_hr_make_packet(CMD_STOP_HEART_RATE, <<1, 0, 0>>))
    /\ hr_pc' = "stop_writing"

\* the continue packet, make_packet(CMD_REAL_TIME_HEART_RATE, b"3"), is
\* handed to write_gatt_char
HrBeginContinue(next_pc) ==
    /\ hr_written' =
           Append(hr_written,
                  live_hr_make_packet(CMD_REAL_TIME_HEART_RATE, <<51>>))
    /\ hr_pc' = next_pc

\* the task ends with an exception
HrRaise(kind) ==
    /\ hr_pc' = "raised"
    /\ hr_outcome' = kind
    /\ UNCHANGED hr_written

\* the start packet is built and handed to write_gatt_char
HrStart ==
    /\ hr_pc = "start"
    /\ hr_written' =
           Append(hr_written,
                  live_hr_make_packet(CMD_START_HEART_RATE, <<1, 0>>))
    /\ hr_pc' = "start_writing"
    /\ UNCHANGED <<heart_rate_queue, hr_iterations, hr_outcome, hr_last_frame,
                   hr_frames>>
    /\ UNCHANGED outsideHeart

\* the end of the write of the start packet, which stands before the try
\* statement: the loop is entered, or the exception of the transport or the
\* CancelledError leaves the task
HrStartWritten ==
    /\ hr_pc = "start_writing"
    /\ \E how \in {"ok", "error", "cancelled"} :
        IF how = "ok"
        THEN /\ hr_pc' = "wait"
             /\ UNCHANGED <<hr_written, hr_outcome>>
        ELSE HrRaise(how)
    /\ UNCHANGED <<heart_rate_queue, hr_iterations, hr_last_frame, hr_frames>>
    /\ UNCHANGED outsideHeart

\* the transport gives one frame to _handle_heart_rate_data, which connect
\* has subscribed and which nothing unsubscribes: before the task has run,
\* while it is parked in an await, and after it has ended
HrNotify ==
    /\ hr_frames < MaxHeartFrames
    /\ \E data \in HeartFrames :
        /\ heart_rate_queue' = handle_heart_rate_data(heart_rate_queue, data)
        /\ hr_last_frame' = Some(data)
    /\ hr_frames' = hr_frames + 1
    /\ UNCHANGED <<hr_pc, hr_written, hr_iterations, hr_outcome>>
    /\ UNCHANGED outsideHeart

\* "hr = await asyncio.wait_for(self.heart_rate_queue.get(), timeout=2.0)"
\* returns a reading, which is printed, and the continue packet is written.
\* After a cancellation requested before the first step of the task of
\* heart_rate_queue.get() (hr_pc cancelling_early), that step takes a reading
\* queued since, the task is done when the coroutine runs again, and
\* wait_for returns the reading: the CancelledError is dropped
HrReading ==
    /\ hr_pc \in {"wait", "cancelling_early"}
    /\ heart_rate_queue # <<>>
    /\ hr_iterations < MaxIterations
    /\ heart_rate_queue' = Tail(heart_rate_queue)
    /\ hr_iterations' = hr_iterations + 1
    /\ HrBeginContinue("continue_writing")
    /\ UNCHANGED <<hr_outcome, hr_last_frame, hr_frames>>
    /\ UNCHANGED outsideHeart

\* the timer of wait_for fires while the queue is empty: the waiter of
\* wait_for is released, and the coroutine runs again a turn of the event
\* loop later
HrTimerExpires ==
    /\ hr_pc = "wait"
    /\ heart_rate_queue = <<>>
    /\ hr_iterations < MaxIterations
    /\ hr_pc' = "expired"
    /\ UNCHANGED <<heart_rate_queue, hr_written, hr_iterations, hr_outcome,
                   hr_last_frame, hr_frames>>
    /\ UNCHANGED outsideHeart

\* the coroutine runs again after the timer has fired: wait_for raises
\* TimeoutError, a reading queued in between stays in the queue, and the
\* continue packet is written in the except clause
HrTimeout ==
    /\ hr_pc = "expired"
    /\ hr_iterations < MaxIterations
    /\ hr_iterations' = hr_iterations + 1
    /\ HrBeginContinue("timeout_writing")
    /\ UNCHANGED <<heart_rate_queue, hr_outcome, hr_last_frame, hr_frames>>
    /\ UNCHANGED outsideHeart

\* the end of a write of the continue packet: the next iteration; or
\* CancelledError, caught by the outer try; or an exception of the
\* transport, which leaves the task, except that a TimeoutError raised by
\* the write after a reading is caught by "except asyncio.TimeoutError" and
\* the continue packet is written again
HrContinueWritten ==
    /\ hr_pc \in {"continue_writing", "timeout_writing"}
    /\ \E how \in {"ok", "error", "timeout_error", "cancelled"} :
        CASE how = "ok" ->
                /\ hr_pc' = "wait"
                /\ UNCHANGED <<hr_written, hr_outcome>>
          [] how = "cancelled" ->
                /\ HrBeginStop
                /\ UNCHANGED hr_outcome
          [] how = "timeout_error" /\ hr_pc = "continue_writing" ->
                /\ HrBeginContinue("timeout_writing")
                /\ UNCHANGED hr_outcome
          [] OTHER -> HrRaise("error")
    /\ UNCHANGED <<heart_rate_queue, hr_iterations, hr_last_frame, hr_frames>>
    /\ UNCHANGED outsideHeart

\* task.cancel() is called while the task is parked in the wait with the
\* queue empty: the waiter of wait_for is cancelled, and the task runs again
\* a turn of the event loop later.  The task of heart_rate_queue.get() that
\* wait_for created is either parked on the queue by then (hr_pc cancelling)
\* or has not had its first step yet (hr_pc cancelling_early), which the
\* event loop decides.  (Called with a reading in the queue, the
\* cancellation is dropped by the wait_for of this Python, which returns the
\* reading: that run is HrReading.)
HrCancelRequested ==
    /\ hr_pc = "wait"
    /\ heart_rate_queue = <<>>
    /\ hr_pc' \in {"cancelling", "cancelling_early"}
    /\ UNCHANGED <<heart_rate_queue, hr_written, hr_iterations, hr_outcome,
                   hr_last_frame, hr_frames>>
    /\ UNCHANGED outsideHeart

\* after a cancellation requested before its first step, the task of
\* heart_rate_queue.get() runs that step with the queue empty and parks on
\* the queue
HrGetParks ==
    /\ hr_pc = "cancelling_early"
    /\ heart_rate_queue = <<>>
    /\ hr_pc' = "cancelling"
    /\ UNCHANGED <<heart_rate_queue, hr_written, hr_iterations, hr_outcome,
                   hr_last_frame, hr_frames>>
    /\ UNCHANGED outsideHeart

\* the CancelledError is raised in the task.  In the wait, after the
\* cancellation was requested there or after the timer has fired, it is
\* caught by "except asyncio.CancelledError" and the stop packet is written:
\* with the task of heart_rate_queue.get() parked on the queue when the
\* cancellation was requested (hr_pc cancelling), a reading queued since
\* then stays in the queue; with that task not yet run (hr_pc
\* cancelling_early), the CancelledError is raised when the queue is still
\* empty at the first step of the task.  A task cancelled before its own
\* first step never runs: it ends cancelled with nothing written
HrCancel ==
    /\ \/ hr_pc \in {"start", "expired", "cancelling"}
       \/ hr_pc = "cancelling_early" /\ heart_rate_queue = <<>>
    /\ IF hr_pc = "start"
       THEN HrRaise("cancelled")
       ELSE /\ HrBeginStop
            /\ UNCHANGED hr_outcome
    /\ UNCHANGED <<heart_rate_queue, hr_iterations, hr_last_frame, hr_frames>>
    /\ UNCHANGED outsideHeart

\* the end of the write of the stop packet: "raise" re-raises the
\* CancelledError; an exception of the write leaves the task in its place
HrStopWritten ==
    /\ hr_pc = "stop_writing"
    /\ \E how \in {"ok", "error", "cancelled"} :
        HrRaise(IF how = "error" THEN "error" ELSE "cancelled")
    /\ UNCHANGED <<heart_rate_queue, hr_iterations, hr_last_frame, hr_frames>>
    /\ UNCHANGED outsideHeart

NextHeart ==
    \/ HrStart
    \/ HrStartWritten
    \/ HrNotify
    \/ HrReading
    \/ HrTimerExpires
    \/ HrTimeout
    \/ HrContinueWritten
    \/ HrCancelRequested
    \/ HrGetParks
    \/ HrCancel
    \/ HrStopWritten

SpecHeart == Init /\ [][NextHeart]_vars

\* ---------------------------------------------------------------------------
\* The properties of SleepDay (sleep.py)
\* ---------------------------------------------------------------------------

MaxPeriods == 3

\* "sum(p.minutes for p in self.periods if p.type in types)"
RECURSIVE MinutesOfTypes(_, _)
MinutesOfTypes(periods, types) ==
    IF periods = <<>> THEN 0
    ELSE (IF periods[1].type \in types THEN periods[1].minutes ELSE 0)
         + MinutesOfTypes(Tail(periods), types)

\* the awake minutes counted as sleep
total_sleep_minutes_withAwake(day) == MinutesOfTypes(day.periods, {2, 3, 4, 5})

\* LIGHT, DEEP, REM
total_sleep_minutes(day) == MinutesOfTypes(day.periods, {2, 3, 4})

deep_sleep_minutes(day) == MinutesOfTypes(day.periods, {3})

light_sleep_minutes(day) == MinutesOfTypes(day.periods, {2})

rem_sleep_minutes(day) == MinutesOfTypes(day.periods, {4})

awake_minutes(day) == MinutesOfTypes(day.periods, {5})

unknown_minutes(day) == MinutesOfTypes(day.periods, {UNKNOWN})

\* SleepDay objects of up to MaxPeriods periods of every stage; the
\* properties read neither the dates nor the start times
AggregateCalls ==
    { [fn |-> "SleepDay", periods |-> periods] :
        periods \in UNION { [1..n -> [type       : SleepTypeValues,
                                      minutes    : {30, 254},
                                      start_time : {0}]] : n \in 0..MaxPeriods } }

\* the six properties of one SleepDay, read one after the other
CallSleepDayProperties ==
    /\ call_args # None
    /\ call_result = None
    /\ call_args[1].fn = "SleepDay"
    /\ LET day == [periods |-> call_args[1].periods]
       IN  call_result' =
               Some([total_sleep_minutes |-> total_sleep_minutes(day),
                     deep_sleep_minutes  |-> deep_sleep_minutes(day),
                     light_sleep_minutes |-> light_sleep_minutes(day),
                     rem_sleep_minutes   |-> rem_sleep_minutes(day),
                     awake_minutes       |-> awake_minutes(day),
                     unknown_minutes     |-> unknown_minutes(day)])
    /\ UNCHANGED <<call_args, outsideCalls>>

\* ---------------------------------------------------------------------------
\* The functions called on their own
\* ---------------------------------------------------------------------------

InitCalls ==
    /\ SessionInit
    /\ CheckerInit
    /\ BatteryInit
    /\ ModifierInit
    /\ TimeInit
    /\ HeartInit
    /\ call_args \in {Some(c) : c \in ParseCalls \cup HandlerCalls
                                   \cup MakePacketCalls \cup BuildParseCalls
                                   \cup ParseResponseCalls \cup TimePacketCalls
                                   \cup AggregateCalls \cup VariantCalls}
    /\ call_result = None

NextCalls ==
    \/ CallParseSleepRecords
    \/ CallNotificationHandler
    \/ CallMakePacket
    \/ CallBuildParse
    \/ CallParseBatteryResponse
    \/ CallCreateTimePacket
    \/ CallSleepDayProperties
    \/ CallMakePacketVariants

SpecCalls == InitCalls /\ [][NextCalls]_vars

\* ---------------------------------------------------------------------------
\* Properties of the packet functions
\* ---------------------------------------------------------------------------

\* make_packet has returned or raised
MakePacketReturned ==
    /\ call_result # None
    /\ call_args[1].fn = "make_packet"

\* the checksum of a 16-byte packet, from its first 15 bytes
ChecksumOf(packet) == SumBytes(SubSeq(packet, 1, 15)) % 256

\* C25: for every command 0..255 and every payload of 0 to 14 bytes
\* make_packet (of the settings scripts and of battery.py) returns exactly 16
\* bytes: the command at byte 0, the payload at bytes 1..len, zeros up to byte
\* 14, and byte 15 the sum of bytes 0..14 mod 256; command 3 with an empty
\* payload gives [3, 0, ..., 0, 3].
C25_MakePacketLayout ==
    (MakePacketReturned /\ Len(call_args[1].sub_data) <= 14) =>
        LET command  == call_args[1].command
            sub_data == call_args[1].sub_data
            returned == call_result[1]
        IN  /\ returned # None
            /\ Len(returned[1]) = 16
            /\ returned[1][1] = command
            /\ \A i \in 1..Len(sub_data) : returned[1][i + 1] = sub_data[i]
            /\ \A i \in (Len(sub_data) + 2)..15 : returned[1][i] = 0
            /\ returned[1][16] = ChecksumOf(returned[1])
            /\ (command = 3 /\ sub_data = <<>>) =>
                   returned[1] = <<3, 0, 0, 0, 0, 0, 0, 0, 0, 0, 0, 0, 0, 0, 0, 3>>

\* a packet of command 255 and 14 payload bytes 0xFF was built: the sum 3825
\* exceeds one byte and the checksum is 3825 mod 256 = 241
C25_Witness ==
    /\ MakePacketReturned
    /\ call_args[1].command = 255
    /\ Len(call_args[1].sub_data) = 14
    /\ call_args[1].sub_data[14] = 255
    /\ call_result[1] # None
    /\ call_result[1][1][16] = 241

\* the packet was built and handed to the parser
BuildParseReturned ==
    /\ call_result # None
    /\ call_args[1].fn = "build_parse"

\* byte i of the payload, 0 where the payload is shorter
PayloadByte(sub_data, i) == IF Len(sub_data) >= i THEN sub_data[i] ELSE 0

\* C26: a packet built with command 3 and payload p parses to level = p[0]
\* and charging = (p[1] != 0), missing payload bytes reading as 0, and its
\* last byte is the sum of its first 15 bytes mod 256.
C26_BuildThenParse ==
    BuildParseReturned =>
        LET sub_data == call_args[1].sub_data
            packet   == call_result[1].packet
            info     == call_result[1].info
        IN  /\ info = Some([level    |-> PayloadByte(sub_data, 1),
                            charging |-> PayloadByte(sub_data, 2) # 0])
            /\ packet[16] = ChecksumOf(packet)

\* a payload of two or more bytes whose second byte is neither 0 nor 1
C26_Witness ==
    /\ BuildParseReturned
    /\ Len(call_args[1].sub_data) >= 2
    /\ call_args[1].sub_data[2] = 255
    /\ call_result[1].info = Some([level |-> 255, charging |-> TRUE])

\* C27: make_packet of modify-intervals.py with a payload of more than 14
\* bytes fails with an error and returns no packet; it returns no packet
\* longer than 16 bytes and no packet with a truncated payload.
C27_LongPayloadRejected ==
    (MakePacketReturned /\ call_args[1].file = "modify-intervals.py") =>
        LET sub_data == call_args[1].sub_data
            returned == call_result[1]
        IN  /\ Len(sub_data) > 14 => returned = None
            /\ returned # None =>
                   /\ Len(returned[1]) = 16
                   /\ SubSeq(returned[1], 2, Len(sub_data) + 1) = sub_data

\* the call with 15 payload bytes has raised
C27_Witness ==
    /\ MakePacketReturned
    /\ call_args[1].file = "modify-intervals.py"
    /\ Len(call_args[1].sub_data) = 15
    /\ call_result[1] = None

\* parse_battery_response has returned or raised
ParseResponseReturned ==
    /\ call_result # None
    /\ call_args[1].fn = "parse_battery_response"

\* C28: parse_battery_response fails for every frame whose length is not 16
\* and for every frame whose first byte is not 3; every other frame parses,
\* whatever its last byte, since the checksum is not verified.
C28_ParseRejectsOtherFrames ==
    ParseResponseReturned =>
        LET packet == call_args[1].packet
            returned == call_result[1]
        IN  IF Len(packet) # 16 \/ packet[1] # 3
            THEN returned = None
            ELSE returned = Some([level    |-> packet[2],
                                charging |-> packet[3] # 0])

\* a battery frame of 16 bytes with a wrong checksum was parsed
C28_Witness ==
    /\ ParseResponseReturned
    /\ Len(call_args[1].packet) = 16
    /\ call_args[1].packet[16] # ChecksumOf(call_args[1].packet)
    /\ call_result[1] # None

\* create_time_packet has returned
TimePacketReturned ==
    /\ call_result # None
    /\ call_args[1].fn = "create_time_packet"

\* byte b holds the two decimal digits of x, the tens in its high four bits
IsBcdOf(b, x) == b \div 16 = x \div 10 /\ b % 16 = x % 10

\* C29: create_time_packet encodes year-2000, month, day, hour, minute and
\* second (each 0..99) as BCD bytes followed by the flag byte 1, as the
\* payload of a 16-byte packet with command id 1 and the checksum of its
\* first 15 bytes.
C29_TimePacketIsBcd ==
    TimePacketReturned =>
        LET t      == call_args[1].target_time
            returned == call_result[1]
        IN  /\ returned # None
            /\ Len(returned[1]) = 16
            /\ returned[1][1] = 1
            /\ IsBcdOf(returned[1][2], t.year - 2000)
            /\ IsBcdOf(returned[1][3], t.month)
            /\ IsBcdOf(returned[1][4], t.day)
            /\ IsBcdOf(returned[1][5], t.hour)
            /\ IsBcdOf(returned[1][6], t.minute)
            /\ IsBcdOf(returned[1][7], t.second)
            /\ returned[1][8] = 1
            /\ \A i \in 9..15 : returned[1][i] = 0
            /\ returned[1][16] = ChecksumOf(returned[1])

\* 2099-12-28 23:59:45 was encoded as 0x99 0x12 0x28 0x23 0x59 0x45
C29_Witness ==
    /\ TimePacketReturned
    /\ call_args[1].target_time.year = 2099
    /\ call_args[1].target_time.second = 45
    /\ call_result[1] # None
    /\ SubSeq(call_result[1][1], 2, 8) = <<153, 18, 40, 35, 89, 69, 1>>

\* ---------------------------------------------------------------------------
\* Properties of the decoding of a settings response
\* ---------------------------------------------------------------------------

\* the frame begins with the awaited command id, which is one of the four
\* settings commands, and is long enough to hold the bytes the handler reads
IsSettingsResponse(awaited, data) ==
    /\ Len(data) > 0
    /\ awaited = << data[1] >>
    /\ data[1] \in {22, 44, 54, 56}
    /\ Len(data) >= (IF data[1] = 22 THEN 4 ELSE 3)

\* after is before with the entry of the frame's sensor replaced by the
\* setting decoded from the frame, every other entry as it was
DecodedInto(before, after, data) ==
    LET key == IF data[1] = 22 THEN "heart_rate"
               ELSE IF data[1] = 44 THEN "blood_oxygen"
               ELSE IF data[1] = 54 THEN "pressure" ELSE "hrv"
    IN  /\ DOMAIN after = DOMAIN before \cup {key}
        /\ after[key].enabled = (data[3] = 1)
        /\ after[key].interval = (IF data[1] = 22 THEN data[4] ELSE 0)
        /\ \A k \in DOMAIN before \ {key} : after[k] = before[k]

\* C30: on a matching settings response, in the checker and in the modifier,
\* enabled is true iff byte 2 of the frame is 1 (0 and 2 give disabled), the
\* interval is byte 3 of the frame for the heart-rate command 22 and 0 for
\* the commands 44, 54 and 56, and only the entry of the sensor of that
\* command is changed.
C30_DecodedSetting ==
    [][/\ (ChkHandled /\ IsSettingsResponse(current_command, chk_last_frame'[1]))
              => DecodedInto(settings, settings', chk_last_frame'[1])
       /\ (ModHandled /\ IsSettingsResponse(mod_current_command, mod_last_frame'[1]))
              => DecodedInto(mod_settings, mod_settings', mod_last_frame'[1])]_vars

\* the checker has decoded the HRV response whose byte 2 is 2 as disabled,
\* with the heart-rate entry of an earlier response still in place
C30_Witness ==
    /\ chk_last_frame = Some(checker_make_packet(CMD_HRV, <<1, 2>>))
    /\ current_command = Some(CMD_HRV)
    /\ {"heart_rate", "hrv"} \subseteq DOMAIN settings
    /\ settings["hrv"] = [enabled |-> FALSE, interval |-> 0]
    /\ settings["heart_rate"] = [enabled |-> TRUE, interval |-> 30]

\* ---------------------------------------------------------------------------
\* Properties of modify_all_settings
\* ---------------------------------------------------------------------------

\* this step hands a modify packet to write_gatt_char
ModWritesModify ==
    /\ mod_pc' = "modify_writing"
    /\ Len(mod_written') = Len(mod_written) + 1

\* C31: a modify request carries the command id of the query of its sensor
\* (22, 44, 54, 56 in this order) and the payload [2, flag] for blood oxygen,
\* pressure and HRV or [2, flag, interval] for the heart rate, where flag is
\* 1 to enable and 2 to disable and the interval is in 5..255 when enabling
\* and 60 when disabling; it is a 16-byte packet with zeros after the payload
\* and the checksum of its first 15 bytes.
C31_ModifyPacket ==
    [][ModWritesModify =>
          LET packet == mod_written'[Len(mod_written')]
              k      == mod_query'
          IN  /\ Len(packet) = 16
              /\ packet[1] = <<22, 44, 54, 56>>[k]
              /\ packet[2] = 2
              /\ packet[3] \in {1, 2}
              /\ IF k = 1
                 THEN /\ packet[3] = 1 => (5 <= packet[4] /\ packet[4] <= 255)
                      /\ packet[3] = 2 => packet[4] = 60
                 ELSE packet[4] = 0
              /\ \A i \in 5..15 : packet[i] = 0
              /\ packet[16] = ChecksumOf(packet)]_vars

\* the four modify packets were written: the heart rate enabled with the
\* interval 255, HRV disabled
C31_Witness ==
    /\ Len(mod_written) >= 8
    /\ SubSeq(mod_written[5], 1, 4) = <<22, 2, 1, 255>>
    /\ SubSeq(mod_written[8], 1, 4) = <<56, 2, 2, 0>>

\* the command id and the first payload byte of every packet written by the
\* modifier, in the order of the writes
ModWriteOrder == [i \in 1..Len(mod_written) |-> SubSeq(mod_written[i], 1, 2)]

\* C32: modify_all_settings confirms by re-querying: when it reports the
\* settings it has written the four queries (22, 44, 54, 56), then the four
\* modify packets, then the four queries again, and the reported setting of
\* every sensor comes from a frame that answered that sensor's query of the
\* second round: no query of the second round is left unanswered.
C32_ReportFromRequery ==
    mod_report # None =>
        /\ ModWriteOrder = << <<22, 1>>, <<44, 1>>, <<54, 1>>, <<56, 1>>,
                              <<22, 2>>, <<44, 2>>, <<54, 2>>, <<56, 2>>,
                              <<22, 1>>, <<44, 1>>, <<54, 1>>, <<56, 1>> >>
        /\ mod_round = 2
        /\ mod_unanswered = {}

\* ---------------------------------------------------------------------------
\* Properties of the SleepDay aggregates
\* ---------------------------------------------------------------------------

\* the properties of a SleepDay have been read
AggregatesRead ==
    /\ call_result # None
    /\ call_args[1].fn = "SleepDay"

\* the minutes of the periods of one stage, added up from the last period
\* to the first
RECURSIVE StageMinutes(_, _)
StageMinutes(periods, stage) ==
    IF Len(periods) = 0 THEN 0
    ELSE StageMinutes(SubSeq(periods, 1, Len(periods) - 1), stage)
         + (IF periods[Len(periods)].type = stage
            THEN periods[Len(periods)].minutes ELSE 0)

\* C33: the aggregates of a SleepDay are reductions of its period sequence
\* grouped by stage: deep, light, REM, awake and unknown minutes are each the
\* sum of the minutes of the periods of that stage, total_sleep_minutes is
\* light + deep + REM, and total + awake + unknown + NoData minutes is the
\* sum of all period minutes.
C33_AggregatesAreReductions ==
    AggregatesRead =>
        LET periods == call_args[1].periods
            a       == call_result[1]
        IN  /\ a.deep_sleep_minutes = StageMinutes(periods, 3)
            /\ a.light_sleep_minutes = StageMinutes(periods, 2)
            /\ a.rem_sleep_minutes = StageMinutes(periods, 4)
            /\ a.awake_minutes = StageMinutes(periods, 5)
            /\ a.unknown_minutes = StageMinutes(periods, -1)
            /\ a.total_sleep_minutes = a.light_sleep_minutes
                   + a.deep_sleep_minutes + a.rem_sleep_minutes
            /\ a.total_sleep_minutes + a.awake_minutes + a.unknown_minutes
                   + StageMinutes(periods, 0) = SumMinutes(periods)

\* a day of a deep, an awake and an unknown period was summed up
C33_Witness ==
    /\ AggregatesRead
    /\ Len(call_args[1].periods) = 3
    /\ call_args[1].periods[1].type = 3
    /\ call_args[1].periods[2].type = 5
    /\ call_args[1].periods[3].type = -1
    /\ call_result[1].total_sleep_minutes = call_args[1].periods[1].minutes
    /\ call_result[1].awake_minutes > 0
    /\ call_result[1].unknown_minutes > 0

\* ---------------------------------------------------------------------------
\* Properties of set_ring_time
\* ---------------------------------------------------------------------------

\* C34: a transport failure while setting the time reaches the caller: when
\* the write of the time packet has failed, or the packet was never written
\* because the UART service or the RX characteristic is missing, main has
\* not printed "Time set successfully".
C34_TimeFailureReachesCaller ==
    time_outcome \in {"write_error", "no_service", "no_characteristic"}
        => ~time_reported

\* ---------------------------------------------------------------------------
\* Equivalence of the make_packet variants
\* ---------------------------------------------------------------------------

\* every variant of make_packet has returned
VariantsReturned ==
    /\ call_result # None
    /\ call_args[1].fn = "make_packet_variants"

\* C35: for every command byte and every payload of 0 to 14 bytes the
\* variants that take the checksum as sum(packet) & 255 over all 16 bytes
\* (battery.py, live-hr.py) return the same 16 bytes as the variants that
\* take it as sum(packet[:-1]) & 0xFF (modify-intervals.py and the files with
\* the same text, spo2.py).
C35_VariantsAgree ==
    VariantsReturned =>
        /\ Len(call_result[1].battery) = 16
        /\ call_result[1].battery = call_result[1].spo2
        /\ call_result[1].live_hr = call_result[1].spo2
        /\ call_result[1].battery = call_result[1].intervals
        /\ call_result[1].live_hr = call_result[1].intervals

\* the variants agree on a packet whose bytes add up to more than 255
C35_Witness ==
    /\ VariantsReturned
    /\ call_args[1].command = 255
    /\ Len(call_args[1].sub_data) = 14
    /\ call_args[1].sub_data[1] = 255
    /\ call_result[1].live_hr[16] = 241
    /\ call_result[1].spo2[16] = 241

\* ---------------------------------------------------------------------------
\* Further properties of get_sleep_data
\* ---------------------------------------------------------------------------

\* C36: get_sleep_data calls stop_notify only if start_notify was called
\* earlier in the same call: on the early exits taken before subscribing
\* (big-data service missing, notify or write characteristic missing) no
\* unsubscribe is issued.
C36_StopNotifyOnlyAfterStart ==
    outcome \in {"no_service", "no_characteristic"} => stop_notify_calls = 0

\* C37: get_sleep_data never divides by zero and never indexes an empty
\* period list: every accumulated record has a duration of at least 1, and
\* whenever a SleepDay was built the accumulator is non-empty, the summed
\* duration is positive and the day has a first period; a completed session
\* without any record returns an empty result.
C37_NoDivisionByZero ==
    /\ [](/\ \A k \in 1..Len(all_records) : all_records[k][2] >= 1
          /\ outcome = "day" =>
                 /\ all_records # <<>>
                 /\ TotalDuration(all_records) > 0
                 /\ Len(result) = 1
                 /\ Len(result[1].periods) >= 1)
    /\ [][(pc \in {"wait", "cancelling_early"} /\ done_event
                /\ pc' = "finally"
                /\ all_records = <<>>) => result' = <<>>]_vars

\* a record of duration 0 was received and dropped, and the day was built
\* from the one record that followed
C37_Witness ==
    /\ pc = "returned"
    /\ outcome = "day"
    /\ received = << <<5, 0>>, <<3, 5>> >>
    /\ Len(all_records) = 1
    /\ Len(result[1].periods) = 1

\* ---------------------------------------------------------------------------
\* Subscription and request of get_sleep_data and get_battery_level
\* ---------------------------------------------------------------------------

\* one call of get_sleep_data or one call of get_battery_level
NextRequests ==
    \/ (bat_pc = "connect" /\ Next)
    \/ (pc = "lookup" /\ NextBattery)

SpecRequests == Init /\ [][NextRequests]_vars

\* C38: in get_sleep_data and in get_battery_level the notification handler
\* is subscribed before the request packet is written: the request is
\* written only with the subscription in place, and the subscription stays
\* in place while the answer is awaited, so that every frame sent in answer
\* to the request reaches the handler.
C38_SubscribedBeforeWrite ==
    [][/\ Len(written') > Len(written) =>
              (start_notify_calls = 1 /\ subscribed /\ subscribed')
       /\ pc' \in {"wait", "expired", "cancelling", "cancelling_early"}
              => subscribed'
       /\ Len(bat_written') > Len(bat_written) =>
              (bat_subscribed /\ bat_subscribed')
       /\ bat_pc' \in {"wait", "expired", "cancelling", "cancelling_early"}
              => bat_subscribed']_vars

\* get_battery_level has written its request and the handler has queued a
\* frame sent in answer
C38_Witness ==
    /\ bat_pc = "wait"
    /\ bat_subscribed
    /\ Len(bat_written) = 1
    /\ Len(response_queue) >= 1

\* ---------------------------------------------------------------------------
\* Settings frames that are too short
\* ---------------------------------------------------------------------------

\* the frame begins with the awaited command id, one of the four settings
\* commands, and ends before the last byte the handler reads
IsShortSettingsFrame(awaited, data) ==
    /\ Len(data) > 0
    /\ awaited = << data[1] >>
    /\ data[1] \in {22, 44, 54, 56}
    /\ Len(data) < (IF data[1] = 22 THEN 4 ELSE 3)

\* C39: a settings frame that matches the awaited command but is too short
\* to decode (fewer than 3 bytes, fewer than 4 for the heart-rate command)
\* is handled without failure and atomically, in the checker and in the
\* modifier: the settings map is left entirely unchanged and the response
\* event is not set, so the query is still waiting.
C39_ShortFrameChangesNothing ==
    [][/\ (ChkHandled /\ IsShortSettingsFrame(current_command, chk_last_frame'[1]))
              => /\ settings' = settings
                 /\ response_event' = response_event
                 /\ current_command' = current_command
                 /\ chk_pc' = chk_pc
       /\ (ModHandled /\ IsShortSettingsFrame(mod_current_command, mod_last_frame'[1]))
              => /\ mod_settings' = mod_settings
                 /\ mod_response_event' = mod_response_event
                 /\ mod_current_command' = mod_current_command
                 /\ mod_pc' = mod_pc]_vars

\* the checker waits for the heart-rate answer, the three-byte frame
\* 16 01 01 has come, and nothing is stored and the event is clear
C39_Witness ==
    /\ chk_pc = "wait"
    /\ current_command = Some(22)
    /\ chk_last_frame = Some(<<22, 1, 1>>)
    /\ settings = <<>>
    /\ ~response_event

\* ---------------------------------------------------------------------------
\* Properties of start_heart_rate_monitoring
\* ---------------------------------------------------------------------------

\* the number of packets of one command among the packets written
RECURSIVE CountCommand(_, _)
CountCommand(packets, command) ==
    IF packets = <<>> THEN 0
    ELSE (IF packets[1][1] = command THEN 1 ELSE 0)
         + CountCommand(Tail(packets), command)

\* the frame is a reading: 16 bytes, first byte 105, error byte 0 and a
\* value other than 0
IsReading(data) ==
    /\ Len(data) = 16
    /\ data[1] = 105
    /\ data[3] = 0
    /\ data[4] # 0

\* C40: in live heart-rate monitoring the packets written are one start
\* packet (command 105), then exactly one continue packet (command 30) per
\* loop iteration, whether the iteration got a reading or the 2 s timeout;
\* once the task has ended by cancellation exactly one stop packet (command
\* 106) was written and it is the last packet written; and a reading is
\* queued only from a 16-byte frame with first byte 105, error byte 0 and a
\* value other than 0.
C40_HeartRateWriteSequence ==
    /\ [](/\ hr_written # <<>> => hr_written[1][1] = 105
          /\ CountCommand(hr_written, 105) <= 1
          /\ \A i \in 2..Len(hr_written) :
                 \/ hr_written[i][1] = 30
                 \/ (hr_written[i][1] = 106 /\ i = Len(hr_written))
          /\ CountCommand(hr_written, 30) = hr_iterations
          /\ hr_outcome = "cancelled" =>
                 /\ CountCommand(hr_written, 106) = 1
                 /\ hr_written[Len(hr_written)][1] = 106)
    /\ [][hr_frames' = hr_frames + 1 =>
              heart_rate_queue' =
                  IF IsReading(hr_last_frame'[1])
                  THEN Append(heart_rate_queue, hr_last_frame'[1][4])
                  ELSE heart_rate_queue]_vars

====
